---- MODULE Spec2Model ----
(***************************************************************************)
(* Model of the XENSIV 60 GHz radar presence detector                      *)
(* (XENSIV_60GHz_Radar_Presence_Detection/xensiv_radar_presence.c).        *)
(*                                                                         *)
(* Representation.                                                         *)
(*  - A frame is represented by the range spectrum that the range FFT      *)
(*    (ifx_range_fft_f32, an external DSP routine) makes of it: one        *)
(*    integer per range bin. The all-zero frame is the all-zero spectrum.  *)
(*  - Scores are kept as exact integers: the macro score is in units of    *)
(*    1/45 (0.2 = 9/45, 0.5/0.45 = 10/9), the micro score is multiplied    *)
(*    by micro_fft_size (the division of the mean is cleared). Thresholds  *)
(*    of a configuration are given in the same units.                      *)
(*  - The CMSIS FIR routines (arm_fir_f32, arm_fir_decimate_f32) are       *)
(*    external; each filter is modelled as a linear filter whose state is  *)
(*    the last sample pushed into it and whose output is that state (a     *)
(*    delay line of length one), so that an output depends on the filter's *)
(*    history and zero state and zero input give zero.                     *)
(*  - Sizes are scaled down: FFT lengths of 8 (range) and 2 (Doppler)      *)
(*    stand for the lengths the DSP library supports.                      *)
(*  - Timestamps are unsigned; a difference below zero wraps (USub).       *)
(*    TsModulus stands for the modulus of the timestamp type.               *)
(*  - A read of a per-bin array at index -1 returns either of UBValues,     *)
(*    chosen anew at every such call.                                       *)
(*  - angle_range_compute (source/angle_range.c) is given a frame that is   *)
(*    represented by the three antennas' spectra after averaging, mean      *)
(*    removal and arm_cfft_f32 (external): per antenna and bin a pair       *)
(*    <<re, im>> of integers, bin 0 being 0. One unit of amplitude is 0.01, *)
(*    so a power of 10 units is 10^-3, that is -30 dB. Angles are kept in   *)
(*    units of 22.5 degrees: even values are exact multiples of 45 degrees, *)
(*    odd values stand for an angle strictly between its two neighbours.    *)
(*    range_m and elevation_deg are not represented.                        *)
(*                                                                         *)
(* Specifications.                                                          *)
(*  - Spec: a detector allocated with one of AllocConfigs, then             *)
(*    process_frame, set_config and reset calls in any order.               *)
(*  - SpecWarmup: bandpass configurations, with a time step that lands      *)
(*    inside the bandpass warm-up.                                          *)
(*  - SpecTs: a macro-only detector; the timestamp of the last event        *)
(*    delivered is tracked.                                                 *)
(*  - SpecTwin: the same calls made on two detectors, one with a callback   *)
(*    and one without.                                                      *)
(*  - SpecCfg: configuration calls alone, on detectors allocated with range *)
(*    bins up to the end of the spectrum.                                   *)
(*  - SpecAlloc: alloc with one allocation failing or none, on supported    *)
(*    and unsupported FFT lengths, then set_config.                         *)
(*  - SpecMax: process_frame, get_max_macro and reset; every macro score    *)
(*    computed since the maximum was cleared is recorded.                   *)
(*  - SpecObs: process_frame and set_config, with the macro and micro       *)
(*    results of the last call recorded.                                    *)
(*  - SpecSame: frames fed at the compare interval and at a shorter one.    *)
(*  - SpecDecay: frames until MACRO_PRESENCE, then frames that score no     *)
(*    hit, at later and later times, as long as the caller has one.         *)
(*  - SpecEv: frames at steps shorter and longer than the validity windows, *)
(*    on detectors whose micro track runs behind the macro track.           *)
(*  - SpecWin: frames at the compare interval and a little before it, on a  *)
(*    macro-only and a micro-only detector.                                 *)
(*  - SpecAoa: angle_range_compute applied once to a frame with one target  *)
(*    and weak clutter, or to no frame.                                     *)
(*  - SpecRing: micro-only detectors with and without decimation, fed       *)
(*    frames until the history ring has wrapped, and reset.                 *)
(*  - SpecSel: a detector with decimation whose micro track runs beside the  *)
(*    macro track, with macro timestamps that stay hot over one frame.      *)
(*  - SpecCli: the console task of cli_task.c and the task that acquires   *)
(*    the frames, on one detector, under the scheduler of FreeRTOS.         *)
(*  - SpecShrink: macro-only detectors whose micro_fft_size is lowered by   *)
(*    set_config between frames, with and without a reset.                 *)
(*  - SpecLimit: macro-only detectors whose max_range_bin is given at or    *)
(*    above max_range_limit_idx, to alloc and to set_config.                *)
(*  - SpecMode: detectors whose mode is changed by set_config between       *)
(*    frames, without a reset.                                              *)
(*  - SpecFresh: a detector that is reset after use, beside a detector      *)
(*    allocated at that moment with the same configuration.                 *)
(*  - SpecRace: console_task calling set_callback beside a task that is    *)
(*    inside process_frame, statement by statement, under any interleaving. *)
(*  - SpecRadar: radar_task of source/main.c handling run, stop, raw_data    *)
(*    and raw_stream commands, with driver calls that succeed or fail.      *)
(*  - SpecCapture: the binary capture program of src/main.c, its start and  *)
(*    stop commands, its frames, and driver and write calls that may fail.  *)
(*  - SpecTrig: detectors with a macro trigger range of two bins and macro  *)
(*    timestamps that stay hot over one frame, fed echoes in one bin or two. *)
(***************************************************************************)
EXTENDS Integers, Sequences, FiniteSets, TLC

VARIABLES
    h,                  \* the detector (struct xensiv_radar_presence_context)
    g,                  \* a second detector, given the same calls, callback NULL
    env,                \* what the caller of this run does and the configuration
                        \* it gave to alloc (fixed in a run)
    now,                \* time_ms of the last process_frame call
    op,                 \* the last call made
    status,             \* the status the last call returned
    events,             \* the events the last call delivered to h's callback
    gevents,            \* the events the last call delivered for g
    prev_ev_ts,         \* timestamp of the last event delivered before that call
    t_first,            \* time_ms of the first frame since alloc or reset (-1: none)
    quiet,              \* since alloc or reset only zero frames were fed, the
                        \* first at time 0 and each later one at a later time
    micro_col,          \* the column the last call evaluated (-1: none)
    state_after_macro,  \* the state the last call's macro stage left (for a
                        \* call other than process_frame: the state before it)
    ncalls,             \* calls made: process_frame, set_config, reset, and
                        \* round trips get_config / set_config
    args,               \* the configuration passed to the last call, in a
                        \* sequence (empty: the call took none)
    heap,               \* the blocks obtained from malloc_fptr and not yet
                        \* released, and the calls of free_fptr per block
    obs,                \* what the last process_frame call did inside, and what
                        \* the last get_max_macro call returned
    aoa,                \* angle_range_compute: the frame and result struct it
                        \* is given, and what it returned
    sys                 \* the tasks of the application at hand: where each
                        \* is, its flags, the scheduler and the sensor

vars == <<h, g, env, now, op, status, events, gevents, prev_ev_ts, t_first,
          quiet, micro_col, state_after_macro, ncalls, args, heap, obs, aoa,
          sys>>

(***************************** program constants ***************************)
RADAR_PRESENCE_DECIMATION_FACTOR == 8
RADAR_PRESENCE_BANDPASS_DELAY == 490
MICRO_RESELECT_GAP_MS == 2000

XENSIV_RADAR_PRESENCE_OK == "OK"
XENSIV_RADAR_PRESENCE_MEM_ERROR == "MEM_ERROR"
XENSIV_RADAR_PRESENCE_FFT_LEN_ERROR == "FFT_LEN_ERROR"
\* the status the interface description gives to a failure of the FFT
\* backend; the source never returns it
XENSIV_RADAR_PRESENCE_IFX_DSP_ERROR == "IFX_DSP_ERROR"

STATE_MACRO_PRESENCE == "MACRO_PRESENCE"
STATE_MICRO_PRESENCE == "MICRO_PRESENCE"
STATE_ABSENCE == "ABSENCE"

MODE_MACRO_ONLY == "MACRO_ONLY"
MODE_MICRO_ONLY == "MICRO_ONLY"
MODE_MICRO_IF_MACRO == "MICRO_IF_MACRO"
MODE_MICRO_AND_MACRO == "MICRO_AND_MACRO"

Modes == {MODE_MACRO_ONLY, MODE_MICRO_ONLY, MODE_MICRO_IF_MACRO, MODE_MICRO_AND_MACRO}

CB_NULL == "NULL"
CB_SET == "presence_detection_cb"

(******************************** bounds ***********************************)
\* calls of process_frame, of set_config and of reset in one run
MaxFrames == 3
MaxSetConfig == 1
MaxReset == 1
\* calls of process_frame in a run of the timestamp specification
MaxFramesTs == 4
\* calls of process_frame in a run of the twin specification: two rows of
\* the ring at one row per RADAR_PRESENCE_DECIMATION_FACTOR frames, and one
MaxFramesTwin == 17
\* get_config / set_config round trips in a run of the configuration
\* specification
MaxRoundTrip == 2
\* calls of get_max_macro in one run
MaxGetMax == 2
\* calls of process_frame in the decay phase of a run
MaxQuietFrames == 6
\* calls of process_frame in a run of the event specification
MaxFramesEv == 6
\* calls of process_frame in a run of the trigger-range specification
MaxFramesTrig == 5
\* frames that become ready, and commands typed, in the task specification
MaxFramesCli == 3
MaxCommands == 2
\* calls of process_frame in a run of the shrunk-ring specification
MaxFramesShrink == 4
\* calls of process_frame in a run of the range-limit specification
MaxFramesLimit == 4
\* calls of process_frame in a run of the mode-change specification
MaxFramesMode == 6
\* calls of process_frame in a run of the fresh-twin specification: one
\* block of RADAR_PRESENCE_DECIMATION_FACTOR frames before the reset and two
\* rows of the ring after it
MaxFramesFresh == 24
\* calls of process_frame, and calls of set_callback by the console, in a
\* run of the set_callback specification
MaxFramesRace == 4
MaxSetCallback == 2
\* commands the radar task handles, and frames the sensor makes ready, in a
\* run of the radar-task specification
MaxRadarCommands == 3
MaxRadarFrames == 2
\* the largest frame count given to 'start', the commands typed and the
\* frames the sensor makes ready in a run of the capture specification
MaxCaptureCount == 2
MaxCaptureCommands == 2
MaxCaptureFrames == 4

\* stand-in for 2^32 (beyond TLC's integers); every model time is far below it
TsModulus == 2^30

\* unsigned subtraction of two timestamps
USub(a, b) == (a - b) % TsModulus

\* what a read outside a per-bin array can return
UBValues == {0, TsModulus - 1}

Abs(x) == IF x < 0 THEN -x ELSE x

(***************************** configuration *******************************)
\* lengths accepted by arm_rfft_fast_init_f32 / arm_cfft_init_f32 (scaled)
SupportedRfftLen == {8}
SupportedCfftLen == {2}

\* ifx_range_resolution(bandwidth) = c / (2 * bandwidth); the bandwidth of a
\* configuration is given in units of c/10 Hz, so 5.0 / resolution = bandwidth
RangeLimitIdx(bandwidth) == bandwidth

\* xensiv_radar_presence_init_config, with the scaled sizes and thresholds
\* and shorter validity windows
DefaultConfig ==
    [ bandwidth                         |-> 3,
      num_samples_per_chirp             |-> 8,
      micro_fft_decimation_enabled      |-> FALSE,
      micro_fft_size                    |-> 2,
      macro_threshold                   |-> 18,
      micro_threshold                   |-> 1,
      min_range_bin                     |-> 1,
      max_range_bin                     |-> 2,
      macro_compare_interval_ms         |-> 250,
      macro_movement_validity_ms        |-> 400,
      micro_movement_validity_ms        |-> 400,
      macro_movement_confirmations      |-> 0,
      macro_trigger_range               |-> 1,
      mode                              |-> MODE_MICRO_IF_MACRO,
      macro_fft_bandpass_filter_enabled |-> FALSE,
      micro_movement_compare_idx        |-> 1 ]

(************************* lifecycle and configuration **********************)
\* fault injection: a reset that leaves the bandpass warm-up deadline standing
reset_keeping_deadline(hd) ==
    [ hd EXCEPT
        !.micro_fft_decimation_write_row_idx = 0,
        !.micro_fft_write_row_idx = 0,
        !.micro_fft_calc_ready = FALSE,
        !.micro_fft_calc_col_idx = 0,
        !.micro_fft_all_calculated = FALSE,
        !.macro_detect_timestamps = [i \in 0..(hd.macro_fft_size - 1) |-> 0],
        !.micro_detect_timestamps = [i \in 0..(hd.macro_fft_size - 1) |-> 0],
        !.micro_detect_distances = [i \in 0..(hd.macro_fft_size - 1) |-> 0],
        !.macro_last_compare_init = FALSE,
        !.macro_last_compare_ms = 0,
        !.macro_movement_hit_count = 0,
        !.last_macro_reported_idx = -1,
        !.last_micro_reported_idx = -1,
        !.state = STATE_ABSENCE,
        !.max_macro = 0,
        !.max_micro = 0,
        !.max_macro_idx = -1,
        !.max_micro_idx = -1,
        !.last_reported_idx = -1 ]

\* xensiv_radar_presence_reset: clears the detection state, keeps the
\* configuration, the buffers' contents and the decimation FIR states
xensiv_radar_presence_reset(hd) ==
    [ hd EXCEPT
        !.micro_fft_decimation_write_row_idx = 0,
        !.micro_fft_write_row_idx = 0,
        !.micro_fft_calc_ready = FALSE,
        !.micro_fft_calc_col_idx = 0,
        !.micro_fft_all_calculated = FALSE,
        !.macro_detect_timestamps = [i \in 0..(hd.macro_fft_size - 1) |-> 0],
        !.micro_detect_timestamps = [i \in 0..(hd.macro_fft_size - 1) |-> 0],
        !.micro_detect_distances = [i \in 0..(hd.macro_fft_size - 1) |-> 0],
        !.macro_last_compare_init = FALSE,
        !.macro_last_compare_ms = 0,
        !.macro_movement_hit_count = 0,
        !.last_macro_reported_idx = -1,
        !.last_micro_reported_idx = -1,
        !.state = STATE_ABSENCE,
        !.max_macro = 0,
        !.max_micro = 0,
        !.max_macro_idx = -1,
        !.max_micro_idx = -1,
        !.last_reported_idx = -1,
        !.bandpass_initial_time_ms = 0 ]

\* the FFT length checks of xensiv_radar_presence_alloc
AllocStatus(config) ==
    IF config.num_samples_per_chirp \notin SupportedRfftLen
    THEN XENSIV_RADAR_PRESENCE_FFT_LEN_ERROR
    ELSE IF config.micro_fft_size \notin SupportedCfftLen
    THEN XENSIV_RADAR_PRESENCE_FFT_LEN_ERROR
    ELSE XENSIV_RADAR_PRESENCE_OK

\* the buffers of a context, in the order xensiv_radar_presence_alloc
\* obtains them from malloc_fptr
AllocPoints ==
    << "context", "macro_fft_win", "macro_fft_buffer", "last_macro_compare",
       "bandpass_macro_fft_buffer",
       "macro_fft_bandpass_fir_re_instances", "macro_fft_bandpass_fir_im_instances",
       "macro_fft_bandpass_fir_re_states", "macro_fft_bandpass_fir_im_states",
       "micro_fft_decimation_buffer",
       "micro_fft_decimation_re_instances", "micro_fft_decimation_im_instances",
       "micro_fft_decimation_re_states", "micro_fft_decimation_im_states",
       "micro_fft_buffer", "micro_fft_col_buffer", "range_intensity_win",
       "macro_detect_timestamps", "micro_detect_timestamps",
       "macro_detect_confidences", "micro_detect_distances" >>

\* the allocations whose result is tested together with the next one's
TestedWithNext ==
    { "macro_fft_buffer", "micro_fft_decimation_re_instances",
      "micro_fft_decimation_re_states" }

\* fault injection: a release that forgets the window buffer
FreeOrderWithoutWindow ==
    << "micro_detect_distances", "macro_detect_confidences", "micro_detect_timestamps",
       "macro_detect_timestamps", "range_intensity_win", "micro_fft_col_buffer",
       "micro_fft_buffer",
       "micro_fft_decimation_im_states", "micro_fft_decimation_re_states",
       "micro_fft_decimation_im_instances", "micro_fft_decimation_re_instances",
       "micro_fft_decimation_buffer",
       "macro_fft_bandpass_fir_re_states", "macro_fft_bandpass_fir_re_instances",
       "macro_fft_bandpass_fir_im_states", "macro_fft_bandpass_fir_im_instances",
       "last_macro_compare", "macro_fft_buffer",
       "bandpass_macro_fft_buffer", "context" >>

\* the fields xensiv_radar_presence_free passes to mem_free, in its order
FreeOrder ==
    << "micro_detect_distances", "macro_detect_confidences", "micro_detect_timestamps",
       "macro_detect_timestamps", "range_intensity_win", "micro_fft_col_buffer",
       "micro_fft_buffer",
       "micro_fft_decimation_im_states", "micro_fft_decimation_re_states",
       "micro_fft_decimation_im_instances", "micro_fft_decimation_re_instances",
       "micro_fft_decimation_buffer",
       "macro_fft_bandpass_fir_re_states", "macro_fft_bandpass_fir_re_instances",
       "macro_fft_bandpass_fir_im_states", "macro_fft_bandpass_fir_im_instances",
       "last_macro_compare", "macro_fft_buffer", "macro_fft_win",
       "bandpass_macro_fft_buffer", "context" >>

\* the heap before any allocation: no block held, free_fptr never called
EmptyHeap ==
    [ live  |-> {},
      frees |-> [ k \in 1..Len(AllocPoints) |-> 0 ] ]

\* the position of a buffer among the allocations
PointOf(b) == CHOOSE k \in 1..Len(AllocPoints) : AllocPoints[k] = b

\* mem_alloc / mem_calloc at the k-th allocation: malloc_fptr returns NULL at
\* the allocation numbered fail (0: it never fails). a.ptrs are the fields of
\* the context that hold a block (the context is calloc'ed: the others are NULL)
mem_alloc(a, k, fail) ==
    IF k = fail
    THEN a
    ELSE [ a EXCEPT !.heap.live = @ \cup {AllocPoints[k]},
                    !.ptrs = @ \cup {AllocPoints[k]} ]

\* mem_free of field b: free_fptr is called when the field is not NULL
mem_free(hp, ptrs, b) ==
    IF b \in ptrs
    THEN [ hp EXCEPT !.live = @ \ {b}, !.frees[PointOf(b)] = @ + 1 ]
    ELSE hp

RECURSIVE FreeFrom(_, _, _)
\* the mem_free calls k, k + 1, ... of xensiv_radar_presence_free
FreeFrom(hp, ptrs, k) ==
    IF k > Len(FreeOrder)
    THEN hp
    ELSE FreeFrom(mem_free(hp, ptrs, FreeOrder[k]), ptrs, k + 1)

\* xensiv_radar_presence_free: the heap after the call
xensiv_radar_presence_free(hp, ptrs) == FreeFrom(hp, ptrs, 1)

RECURSIVE AllocBuffers(_, _, _)
\* the allocations k, k + 1, ... of xensiv_radar_presence_alloc with their
\* NULL tests: on a NULL the partly built context is freed
AllocBuffers(a, k, fail) ==
    IF k > Len(AllocPoints)
    THEN a
    ELSE LET a1 == mem_alloc(a, k, fail)
         IN IF AllocPoints[k] \in TestedWithNext
            THEN AllocBuffers(a1, k + 1, fail)
            ELSE IF \/ AllocPoints[k] \notin a1.ptrs
                    \/ /\ AllocPoints[k - 1] \in TestedWithNext
                       /\ AllocPoints[k - 1] \notin a1.ptrs
                 THEN [ a1 EXCEPT
                          !.heap = xensiv_radar_presence_free(a1.heap, a1.ptrs),
                          !.status = XENSIV_RADAR_PRESENCE_MEM_ERROR ]
                 ELSE AllocBuffers(a1, k + 1, fail)

\* xensiv_radar_presence_alloc as seen from the heap: the returned status,
\* the heap after the call and the fields that were given a block
AllocRun(config, fail) ==
    LET a0 == mem_alloc([ heap   |-> EmptyHeap,
                          ptrs   |-> {},
                          status |-> XENSIV_RADAR_PRESENCE_OK ], 1, fail)
    IN IF "context" \notin a0.ptrs
       THEN [ a0 EXCEPT !.status = XENSIV_RADAR_PRESENCE_MEM_ERROR ]
       ELSE IF AllocStatus(config) # XENSIV_RADAR_PRESENCE_OK
       THEN [ a0 EXCEPT !.heap = mem_free(a0.heap, a0.ptrs, "context"),
                        !.status = AllocStatus(config) ]
       ELSE AllocBuffers(a0, 2, fail)

\* the value of *handle while it is NULL
NullHandle == [ null |-> TRUE ]

\* the context xensiv_radar_presence_alloc builds when every allocation
\* succeeds: the configuration is copied as given, the buffers are sized from
\* it, the decimation FIR states are initialised, then reset is called.
\* Buffers that the code reads only after writing them start as zeros.
xensiv_radar_presence_alloc(config, cb) ==
    LET fft_size == config.num_samples_per_chirp \div 2
        limit == RangeLimitIdx(config.bandwidth)
    IN xensiv_radar_presence_reset(
        [ config                             |-> config,
          doppler_fft_len                    |-> config.micro_fft_size,
          macro_fft_size                     |-> fft_size,
          max_range_limit_idx                |-> limit,
          max_micro_fft_size                 |-> config.micro_fft_size,
          last_macro_compare                 |-> [i \in 0..(fft_size - 1) |-> 0],
          macro_fft_bandpass_fir_states      |-> [i \in 0..(limit - 1) |-> 0],
          micro_fft_decimation_states        |-> [i \in 0..(limit - 1) |-> 0],
          micro_fft_buffer                   |->
              [k \in 0..(limit * config.micro_fft_size - 1) |-> 0],
          micro_fft_decimation_write_row_idx |-> 0,
          micro_fft_write_row_idx            |-> 0,
          micro_fft_calc_ready               |-> FALSE,
          micro_fft_calc_col_idx             |-> 0,
          micro_fft_all_calculated           |-> FALSE,
          macro_detect_timestamps            |-> [i \in 0..(fft_size - 1) |-> 0],
          micro_detect_timestamps            |-> [i \in 0..(fft_size - 1) |-> 0],
          micro_detect_distances             |-> [i \in 0..(fft_size - 1) |-> 0],
          macro_last_compare_init            |-> FALSE,
          macro_last_compare_ms              |-> 0,
          macro_movement_hit_count           |-> 0,
          last_macro_reported_idx            |-> 0,
          last_micro_reported_idx            |-> 0,
          state                              |-> STATE_MACRO_PRESENCE,
          max_macro                          |-> 0,
          max_micro                          |-> 0,
          max_macro_idx                      |-> 0,
          max_micro_idx                      |-> 0,
          last_reported_idx                  |-> 0,
          bandpass_initial_time_ms           |-> 0,
          callback                           |-> cb ])

\* xensiv_radar_presence_get_config: a copy of the stored configuration
xensiv_radar_presence_get_config(hd) == hd.config

\* the status xensiv_radar_presence_set_config returns
SetConfigStatus(hd, config) ==
    IF config.micro_fft_size > hd.max_micro_fft_size
    THEN XENSIV_RADAR_PRESENCE_FFT_LEN_ERROR
    ELSE XENSIV_RADAR_PRESENCE_OK

\* fault injection: a set_config that copies the configuration in before it
\* tests micro_fft_size
set_config_copy_first(hd, config) ==
    [ hd EXCEPT !.config =
        [ config EXCEPT
            !.min_range_bin =
                IF config.min_range_bin > hd.max_range_limit_idx
                THEN hd.max_range_limit_idx ELSE config.min_range_bin,
            !.max_range_bin =
                IF config.max_range_bin > hd.max_range_limit_idx
                THEN hd.max_range_limit_idx ELSE config.max_range_bin ] ]

\* xensiv_radar_presence_set_config: the handle after the call
xensiv_radar_presence_set_config(hd, config) ==
    IF config.micro_fft_size > hd.max_micro_fft_size
    THEN hd
    ELSE [ hd EXCEPT !.config =
             [ config EXCEPT
                 !.min_range_bin =
                     IF config.min_range_bin > hd.max_range_limit_idx
                     THEN hd.max_range_limit_idx ELSE config.min_range_bin,
                 !.max_range_bin =
                     IF config.max_range_bin > hd.max_range_limit_idx
                     THEN hd.max_range_limit_idx ELSE config.max_range_bin ] ]

\* fault injection: a get_max_macro that does not clear what it returns
get_max_macro_without_clear(hd) ==
    IF hd.max_macro_idx < 0
    THEN [ ret |-> FALSE, macro |-> -1, index |-> -1, h |-> hd ]
    ELSE [ ret |-> TRUE, macro |-> hd.max_macro, index |-> hd.max_macro_idx,
           h |-> hd ]

\* xensiv_radar_presence_get_max_macro: the returned flag, the values written
\* to *macro and *index (left at -1 when nothing is written) and the handle
\* after the call
xensiv_radar_presence_get_max_macro(hd) ==
    IF hd.max_macro_idx < 0
    THEN [ ret |-> FALSE, macro |-> -1, index |-> -1, h |-> hd ]
    ELSE [ ret |-> TRUE, macro |-> hd.max_macro, index |-> hd.max_macro_idx,
           h |-> [ hd EXCEPT !.max_macro = 0, !.max_macro_idx = -1 ] ]

(****************************** process_frame *******************************)
\* unsigned addition of a timestamp and a duration
UAdd(a, b) == (a + b) % TsModulus

\* the smallest element of a non-empty set of integers
SetMin(S) == CHOOSE x \in S : \A y \in S : x <= y

\* a read of a per-bin array: outside the array it returns what memory holds
ReadAt(arr, i, ub) == IF i \in DOMAIN arr THEN arr[i] ELSE ub

\* the callback call guarded by (handle->callback) != NULL
Emit(r, event) ==
    IF r.h.callback # CB_NULL THEN [r EXCEPT !.ev = Append(@, event)] ELSE r

\* fault injection: a switch_to_absence that stores the placeholder state
switch_to_placeholder(r, time_ms) ==
    LET r1 == Emit(r, [ timestamp |-> time_ms,
                        range_bin |-> -1,
                        state     |-> "PLACEHOLDER" ])
    IN [ r1 EXCEPT !.h.state = "PLACEHOLDER",
                   !.h.last_micro_reported_idx = -1,
                   !.h.micro_fft_all_calculated = FALSE ]

\* switch_to_absence (without its assert that the state is not ABSENCE)
switch_to_absence(r, time_ms) ==
    LET r1 == Emit(r, [ timestamp |-> time_ms,
                        range_bin |-> -1,
                        state     |-> STATE_ABSENCE ])
    IN [ r1 EXCEPT !.h.state = STATE_ABSENCE,
                   !.h.last_micro_reported_idx = -1,
                   !.h.micro_fft_all_calculated = FALSE ]

\* first lines of process_frame: the bandpass FIR states are initialised and
\* the warm-up deadline set whenever the deadline is 0
BandpassInit(hd, time_ms) ==
    IF hd.bandpass_initial_time_ms = 0
    THEN [ hd EXCEPT
             !.macro_fft_bandpass_fir_states = [i \in DOMAIN @ |-> 0],
             !.bandpass_initial_time_ms =
                 UAdd(time_ms, RADAR_PRESENCE_BANDPASS_DELAY) ]
    ELSE hd

\* ifx_range_fft_f32 reports a failure for a length it does not support
RangeFftOk(hd) == hd.config.num_samples_per_chirp \in SupportedRfftLen

\* arm_fir_f32 / arm_fir_decimate_f32 (external): output and next state of a
\* filter in state st when x is pushed
FirOut(st, x) == st
FirNext(st, x) == x

\* the bandpass bank filters bins below max_range_limit_idx
BandpassStates(hd, spectrum) ==
    IF hd.config.macro_fft_bandpass_filter_enabled
    THEN [ i \in DOMAIN hd.macro_fft_bandpass_fir_states |->
             FirNext(hd.macro_fft_bandpass_fir_states[i], ReadAt(spectrum, i, 0)) ]
    ELSE hd.macro_fft_bandpass_fir_states

\* the spectrum the macro track compares: the bandpass output when the
\* filter is enabled, the range spectrum otherwise
MacroSource(hd, spectrum) ==
    IF hd.config.macro_fft_bandpass_filter_enabled
    THEN [ i \in DOMAIN spectrum |->
             IF i < hd.max_range_limit_idx
             THEN FirOut(hd.macro_fft_bandpass_fir_states[i], spectrum[i])
             ELSE 0 ]
    ELSE spectrum

\* cabsf(diff) * range_intensity_win[i], times 0.5/0.45 with the bandpass
\* filter enabled, in units of 1/45
MacroScore(diff, i, bandpass) ==
    IF bandpass THEN Abs(diff) * (i + 1) * 10 ELSE Abs(diff) * (i + 1) * 9

RECURSIVE MacroCompareLoop(_, _, _, _)
\* the frame-difference loop over bins i..max_range_bin: the handle after
\* it, whether a bin was hit, and the <<bin, score>> pairs it computed
MacroCompareLoop(hd, src, time_ms, i) ==
    IF i > hd.config.max_range_bin
    THEN [ h |-> hd, hit |-> FALSE, seen |-> {} ]
    ELSE LET macro == MacroScore(src[i] - hd.last_macro_compare[i], i,
                                 hd.config.macro_fft_bandpass_filter_enabled)
             h1 == IF macro >= hd.max_macro
                   THEN [ hd EXCEPT !.max_macro = macro, !.max_macro_idx = i ]
                   ELSE hd
             isHit == macro >= hd.config.macro_threshold
             h2 == IF isHit
                   THEN [ h1 EXCEPT !.macro_detect_timestamps[i] =
                            UAdd(time_ms, hd.config.macro_movement_validity_ms) ]
                   ELSE h1
             rest == MacroCompareLoop(h2, src, time_ms, i + 1)
         IN [ h |-> rest.h, hit |-> isHit \/ rest.hit,
              seen |-> {<<i, macro>>} \cup rest.seen ]

\* fault injection: a macro gate without the bandpass warm-up test
MacroGateNoWarmup(hd, time_ms) ==
    /\ hd.config.mode # MODE_MICRO_ONLY
    /\ hd.macro_last_compare_ms + hd.config.macro_compare_interval_ms < time_ms

\* the macro gate: mode, compare interval and bandpass warm-up
MacroGate(hd, time_ms) ==
    /\ hd.config.mode # MODE_MICRO_ONLY
    /\ hd.macro_last_compare_ms + hd.config.macro_compare_interval_ms < time_ms
    /\ time_ms > hd.bandpass_initial_time_ms

\* fault injection: a compare window that includes its upper end
MacroCompareOpenInclusive(hd, time_ms) ==
    hd.macro_last_compare_ms + 2 * hd.config.macro_compare_interval_ms >= time_ms

\* the upper end of the compare window
MacroCompareOpen(hd, time_ms) ==
    hd.macro_last_compare_ms + 2 * hd.config.macro_compare_interval_ms > time_ms

\* the bins of [min_range_bin, max_range_bin] whose macro timestamp is hot
MacroHotBins(hd, time_ms) ==
    { i \in hd.config.min_range_bin .. hd.config.max_range_bin :
        time_ms <= hd.macro_detect_timestamps[i] }

\* fault injection: the trigger range is required whatever the state is
MacroMovementIdxRangeOnly(hd, time_ms) ==
    IF hd.macro_movement_hit_count >= hd.config.macro_movement_confirmations
    THEN IF Cardinality(MacroHotBins(hd, time_ms)) >= hd.config.macro_trigger_range
         THEN IF MacroHotBins(hd, time_ms) = {}
              THEN -1
              ELSE SetMin(MacroHotBins(hd, time_ms))
         ELSE -1
    ELSE -1

\* macro_movement_idx: the bin the macro track reports, or -1
MacroMovementIdx(hd, time_ms) ==
    IF hd.macro_movement_hit_count >= hd.config.macro_movement_confirmations
    THEN IF \/ Cardinality(MacroHotBins(hd, time_ms)) >= hd.config.macro_trigger_range
            \/ hd.state # STATE_ABSENCE
         THEN IF MacroHotBins(hd, time_ms) = {}
              THEN -1
              ELSE SetMin(MacroHotBins(hd, time_ms))
         ELSE -1
    ELSE -1

\* macro drop outside MACRO_ONLY: the micro track is armed
ArmMicro(hd, time_ms) ==
    [ hd EXCEPT
        !.state = STATE_MICRO_PRESENCE,
        !.last_micro_reported_idx = -1,
        !.micro_detect_timestamps =
            [ i \in DOMAIN hd.micro_detect_timestamps |->
                IF i \in hd.config.min_range_bin .. hd.config.max_range_bin
                THEN IF i >= hd.last_macro_reported_idx
                     THEN UAdd(time_ms, hd.config.micro_movement_validity_ms)
                     ELSE 0
                ELSE hd.micro_detect_timestamps[i] ] ]

\* the macro report: taken when the reported bin differs from the last one
MacroReport(r, idx, time_ms) ==
    IF idx # r.h.last_macro_reported_idx
    THEN LET r1 ==
               IF idx >= 0
               THEN LET r0 == Emit(r,
                              [ timestamp |-> USub(r.h.macro_detect_timestamps[idx],
                                                   r.h.config.macro_movement_validity_ms),
                                range_bin |-> idx,
                                state     |-> STATE_MACRO_PRESENCE ])
                    IN [ r0 EXCEPT !.h.state = STATE_MACRO_PRESENCE,
                                   !.h.last_reported_idx = idx ]
               ELSE LET r0 == IF r.h.config.mode = MODE_MACRO_ONLY
                              THEN switch_to_absence(r, time_ms)
                              ELSE [ r EXCEPT !.h = ArmMicro(r.h, time_ms) ]
                    IN [ r0 EXCEPT !.h.micro_fft_calc_col_idx =
                                       r.h.config.min_range_bin ]
         IN [ r1 EXCEPT !.h.last_macro_reported_idx = idx ]
    ELSE r

\* what the macro track of a frame did when its gate was closed
NoMacro ==
    [ evaluated |-> FALSE, compared |-> FALSE, hit |-> FALSE, idx |-> -1,
      seen |-> {} ]

\* the macro track of one frame; r.macro records whether the gate was open,
\* whether the comparison ran, its hit flag and scores, and macro_movement_idx
MacroStage(r, src, time_ms) ==
    IF MacroGate(r.h, time_ms)
    THEN LET cmp == IF MacroCompareOpen(r.h, time_ms)
                    THEN MacroCompareLoop(r.h, src, time_ms, r.h.config.min_range_bin)
                    ELSE [ h |-> r.h, hit |-> FALSE, seen |-> {} ]
             h1 == [ cmp.h EXCEPT
                       !.macro_movement_hit_count = IF cmp.hit THEN @ + 1 ELSE 0,
                       !.last_macro_compare = src ]
             idx == MacroMovementIdx(h1, time_ms)
             h2 == [ h1 EXCEPT !.macro_last_compare_ms = time_ms ]
         IN MacroReport([ r EXCEPT
                            !.h = h2,
                            !.macro = [ evaluated |-> TRUE,
                                        compared  |-> MacroCompareOpen(r.h, time_ms),
                                        hit       |-> cmp.hit,
                                        idx       |-> idx,
                                        seen      |-> cmp.seen ] ],
                        idx, time_ms)
    ELSE r

\* a row of the history ring is written: max_range_limit_idx values at
\* micro_fft_write_row_idx * max_range_limit_idx
RingWriteRow(hd, row) ==
    [ hd EXCEPT
        !.micro_fft_buffer =
            [ k \in DOMAIN hd.micro_fft_buffer |->
                IF /\ k >= hd.micro_fft_write_row_idx * hd.max_range_limit_idx
                   /\ k < (hd.micro_fft_write_row_idx + 1) * hd.max_range_limit_idx
                THEN row[k - hd.micro_fft_write_row_idx * hd.max_range_limit_idx]
                ELSE hd.micro_fft_buffer[k] ],
        !.micro_fft_write_row_idx = @ + 1 ]

\* fault injection: the carry-buffer row index is not set back to 0
DecimationStageNoRewind(hd, spectrum) ==
    IF hd.micro_fft_decimation_write_row_idx + 1 >= RADAR_PRESENCE_DECIMATION_FACTOR
    THEN LET row == [ i \in 0..(hd.max_range_limit_idx - 1) |->
                        FirOut(hd.micro_fft_decimation_states[i],
                               ReadAt(spectrum, i, 0)) ]
             h1 == [ hd EXCEPT
                       !.micro_fft_decimation_states =
                           [ i \in DOMAIN @ |->
                               FirNext(@[i], ReadAt(spectrum, i, 0)) ] ]
         IN RingWriteRow(h1, row)
    ELSE [ hd EXCEPT !.micro_fft_decimation_write_row_idx = @ + 1 ]

\* the decimation path: the frame goes to the carry buffer; on the 8th frame
\* every bin's block is pushed through its decimator and the outputs make
\* one row of the ring
DecimationStage(hd, spectrum) ==
    IF hd.micro_fft_decimation_write_row_idx + 1 = RADAR_PRESENCE_DECIMATION_FACTOR
    THEN LET row == [ i \in 0..(hd.max_range_limit_idx - 1) |->
                        FirOut(hd.micro_fft_decimation_states[i],
                               ReadAt(spectrum, i, 0)) ]
             h1 == [ hd EXCEPT
                       !.micro_fft_decimation_write_row_idx = 0,
                       !.micro_fft_decimation_states =
                           [ i \in DOMAIN @ |->
                               FirNext(@[i], ReadAt(spectrum, i, 0)) ] ]
         IN RingWriteRow(h1, row)
    ELSE [ hd EXCEPT !.micro_fft_decimation_write_row_idx = @ + 1 ]

\* the ring update of one frame, with the wrap test
RingStage(hd, spectrum) ==
    LET h1 == IF hd.config.micro_fft_decimation_enabled
              THEN DecimationStage(hd, spectrum)
              ELSE RingWriteRow(hd, [ i \in 0..(hd.max_range_limit_idx - 1) |->
                                        ReadAt(spectrum, i, 0) ])
    IN IF h1.micro_fft_write_row_idx = h1.config.micro_fft_size
       THEN [ h1 EXCEPT !.micro_fft_calc_ready = TRUE,
                        !.micro_fft_write_row_idx = 0,
                        !.micro_fft_calc_col_idx = h1.config.min_range_bin ]
       ELSE h1

\* fault injection: a micro gate that lets MICRO_IF_MACRO run in MACRO_PRESENCE
MicroSkippedInAbsenceOnly(hd) ==
    \/ hd.config.mode = MODE_MACRO_ONLY
    \/ /\ hd.config.mode = MODE_MICRO_IF_MACRO
       /\ hd.state = STATE_ABSENCE

\* the micro track is skipped in MACRO_ONLY, and in MICRO_IF_MACRO while the
\* state is ABSENCE or MACRO_PRESENCE
MicroSkipped(hd) ==
    \/ hd.config.mode = MODE_MACRO_ONLY
    \/ /\ hd.config.mode = MODE_MICRO_IF_MACRO
       /\ hd.state \in {STATE_ABSENCE, STATE_MACRO_PRESENCE}

\* the column of the ring for bin col, oldest row first
RingColumn(hd, col) ==
    [ k \in 0..(hd.config.micro_fft_size - 1) |->
        hd.micro_fft_buffer[
            ((hd.micro_fft_write_row_idx + k) % hd.config.micro_fft_size)
                * hd.max_range_limit_idx + col ] ]

RECURSIVE SumTo(_, _)
\* column[0] + ... + column[n]
SumTo(column, n) == IF n < 0 THEN 0 ELSE column[n] + SumTo(column, n - 1)

\* mean removal, times micro_fft_size
MeanRemoved(hd, column) ==
    [ k \in DOMAIN column |->
        hd.config.micro_fft_size * column[k]
            - SumTo(column, hd.config.micro_fft_size - 1) ]

\* |X[i]| of the complex FFT of length 2 (arm_cfft_f32, external)
CfftAbs(x, i) == IF i % 2 = 0 THEN Abs(x[0] + x[1]) ELSE Abs(x[0] - x[1])

RECURSIVE Speed(_, _)
\* the sum of |X[i]| for i = 1..n
Speed(x, n) == IF n < 1 THEN 0 ELSE CfftAbs(x, n) + Speed(x, n - 1)

\* the micro score of column col
MicroSpeed(hd, col) ==
    Speed(MeanRemoved(hd, RingColumn(hd, col)), hd.config.micro_movement_compare_idx)

\* the Doppler evaluation of one column and the advance of the column scan
MicroFftStage(hd, time_ms) ==
    IF hd.micro_fft_calc_ready
    THEN LET col == hd.micro_fft_calc_col_idx
             speed == MicroSpeed(hd, col)
             h1 == IF hd.max_micro < speed
                   THEN [ hd EXCEPT !.max_micro = speed, !.max_micro_idx = col ]
                   ELSE hd
             confidence == speed - hd.config.micro_threshold
             h2 == IF confidence >= 0
                   THEN [ h1 EXCEPT
                            !.micro_detect_timestamps[col] =
                                UAdd(time_ms, hd.config.micro_movement_validity_ms),
                            !.micro_detect_distances[col] = confidence,
                            !.state = STATE_MICRO_PRESENCE ]
                   ELSE h1
         IN IF col + 1 > hd.config.max_range_bin
            THEN [ h2 EXCEPT !.micro_fft_calc_col_idx = hd.config.min_range_bin,
                             !.micro_fft_all_calculated = TRUE ]
            ELSE [ h2 EXCEPT !.micro_fft_calc_col_idx = col + 1 ]
    ELSE hd

\* the bins of [min_range_bin, max_range_bin] whose micro timestamp is hot
MicroHotBins(hd, time_ms) ==
    { i \in hd.config.min_range_bin .. hd.config.max_range_bin :
        time_ms <= hd.micro_detect_timestamps[i] }

RECURSIVE MicroConfidenceLoop(_, _, _, _, _, _)
\* decimation mode, third choice: over bins i..max_range_bin, the hot bin of
\* the highest micro_detect_distances whose micro timestamp is more than
\* 2000 ms after that of the last reported bin (last_ts)
MicroConfidenceLoop(hd, time_ms, last_ts, i, idx, max_conf) ==
    IF i > hd.config.max_range_bin
    THEN idx
    ELSE IF /\ time_ms <= hd.micro_detect_timestamps[i]
            /\ hd.micro_detect_distances[i] > max_conf
            /\ USub(hd.micro_detect_timestamps[i], last_ts) > MICRO_RESELECT_GAP_MS
         THEN MicroConfidenceLoop(hd, time_ms, last_ts, i + 1, i,
                                  hd.micro_detect_distances[i])
         ELSE MicroConfidenceLoop(hd, time_ms, last_ts, i + 1, idx, max_conf)

\* micro_movement_idx with micro_fft_decimation_enabled; ub is what the reads
\* at an index outside the per-bin arrays (last_reported_idx = -1) return
MicroMovementIdxDecimated(hd, time_ms, ub) ==
    LET all_previous_event_expired ==
            \A i \in hd.config.min_range_bin .. hd.last_reported_idx :
                ~(time_ms <= ReadAt(hd.macro_detect_timestamps, i, ub))
        beyond ==
            { i \in (hd.last_reported_idx + 1) .. hd.config.max_range_bin :
                time_ms <= ReadAt(hd.macro_detect_timestamps, i, ub) }
        macro_not_displayed == all_previous_event_expired /\ beyond # {}
        last_ts == ReadAt(hd.micro_detect_timestamps, hd.last_reported_idx, ub)
    IN IF time_ms <= last_ts /\ ~macro_not_displayed
       THEN hd.last_reported_idx
       ELSE IF hd.micro_fft_all_calculated /\ ~macro_not_displayed
       THEN MicroConfidenceLoop(hd, time_ms, last_ts, hd.config.min_range_bin, -1, 0)
       ELSE IF macro_not_displayed THEN SetMin(beyond) ELSE -1

\* micro_movement_idx: the bin the micro track reports, or -1
MicroMovementIdx(hd, time_ms, ub) ==
    IF hd.config.micro_fft_decimation_enabled
    THEN MicroMovementIdxDecimated(hd, time_ms, ub)
    ELSE IF MicroHotBins(hd, time_ms) = {}
         THEN -1
         ELSE SetMin(MicroHotBins(hd, time_ms))

\* the micro report and the absence report
MicroReport(r, idx, time_ms) ==
    LET r1 == IF idx # r.h.last_micro_reported_idx
              THEN LET r0 == [ r EXCEPT !.h.last_micro_reported_idx = idx ]
                   IN IF idx >= 0
                      THEN [ Emit(r0,
                               [ timestamp |-> USub(r.h.micro_detect_timestamps[idx],
                                                    r.h.config.micro_movement_validity_ms),
                                 range_bin |-> idx,
                                 state     |-> STATE_MICRO_PRESENCE ])
                             EXCEPT !.h.last_reported_idx = idx ]
                      ELSE r0
              ELSE r
    IN IF /\ idx = -1
          /\ r1.h.state = STATE_MICRO_PRESENCE
          /\ r1.h.micro_fft_all_calculated
       THEN switch_to_absence(r1, time_ms)
       ELSE r1

\* whether the Doppler evaluation of this frame scored a hit
MicroHit(hd) ==
    /\ hd.micro_fft_calc_ready
    /\ MicroSpeed(hd, hd.micro_fft_calc_col_idx) - hd.config.micro_threshold >= 0

\* xensiv_radar_presence_process_frame: the handle after the call, the events
\* delivered to the callback, the returned status, the column the micro
\* detector evaluated (-1: none), the state the macro stage left, what the
\* macro track did and whether the micro track scored a hit
xensiv_radar_presence_process_frame(hd, spectrum, time_ms, ub) ==
    LET h0 == BandpassInit(hd, time_ms)
    IN IF ~RangeFftOk(h0)
       THEN [ h |-> h0, ev |-> <<>>, status |-> XENSIV_RADAR_PRESENCE_FFT_LEN_ERROR,
              micro_col |-> -1, state_after_macro |-> h0.state,
              macro |-> NoMacro, micro_hit |-> FALSE ]
       ELSE LET src == MacroSource(h0, spectrum)
                h1 == [ h0 EXCEPT !.macro_fft_bandpass_fir_states =
                                      BandpassStates(h0, spectrum) ]
                h2 == IF ~h1.macro_last_compare_init
                      THEN [ h1 EXCEPT !.last_macro_compare = src,
                                       !.macro_last_compare_init = TRUE ]
                      ELSE h1
                r3 == MacroStage([ h |-> h2, ev |-> <<>>, macro |-> NoMacro ],
                                 src, time_ms)
                h4 == RingStage(r3.h, spectrum)
            IN IF MicroSkipped(h4)
               THEN [ h |-> h4, ev |-> r3.ev, status |-> XENSIV_RADAR_PRESENCE_OK,
                      micro_col |-> -1, state_after_macro |-> r3.h.state,
                      macro |-> r3.macro, micro_hit |-> FALSE ]
               ELSE LET h5 == MicroFftStage(h4, time_ms)
                        r6 == MicroReport([ h |-> h5, ev |-> r3.ev,
                                            macro |-> r3.macro ],
                                          MicroMovementIdx(h5, time_ms, ub), time_ms)
                    IN [ h |-> r6.h, ev |-> r6.ev,
                         status |-> XENSIV_RADAR_PRESENCE_OK,
                         micro_col |-> IF h4.micro_fft_calc_ready
                                       THEN h4.micro_fft_calc_col_idx ELSE -1,
                         state_after_macro |-> r3.h.state,
                         macro |-> r3.macro, micro_hit |-> MicroHit(h4) ]

(***************************** inputs of a run ******************************)
\* the range spectra of the frames fed: an echo in bin 1, in bin 2, or none
ZeroFrame == [i \in 0..3 |-> 0]
Frames == { ZeroFrame, [ZeroFrame EXCEPT ![1] = 1], [ZeroFrame EXCEPT ![2] = 1] }

\* a configuration by mode, bandpass and decimation switches
Config(m, bp, dec) ==
    [ DefaultConfig EXCEPT !.mode = m,
                           !.macro_fft_bandpass_filter_enabled = bp,
                           !.micro_fft_decimation_enabled = dec ]

\* the configurations a detector is allocated with
AllocConfigs ==
    { Config(MODE_MACRO_ONLY, FALSE, FALSE),
      Config(MODE_MACRO_ONLY, TRUE, FALSE),
      Config(MODE_MICRO_ONLY, FALSE, FALSE),
      Config(MODE_MICRO_ONLY, FALSE, TRUE),
      Config(MODE_MICRO_IF_MACRO, FALSE, FALSE),
      Config(MODE_MICRO_IF_MACRO, TRUE, TRUE),
      Config(MODE_MICRO_AND_MACRO, FALSE, FALSE),
      Config(MODE_MICRO_AND_MACRO, TRUE, TRUE) }

\* the configurations set_config is called with
SetConfigs ==
    { [ Config(MODE_MICRO_AND_MACRO, FALSE, FALSE) EXCEPT !.max_range_bin = 1 ] }

\* a step of the caller's clock that opens the compare window: more than
\* the bandpass delay and than the compare interval, less than two intervals
CompareStep == RADAR_PRESENCE_BANDPASS_DELAY + 1

\* the caller of the main specification: time_ms stays or advances by
\* CompareStep from one process_frame call to the next
MainEnv ==
    [ twin |-> FALSE, track |-> FALSE, observe |-> FALSE, decay |-> FALSE,
      max_frames |-> MaxFrames,
      steps |-> {0, CompareStep},
      frames |-> Frames, setconfigs |-> SetConfigs ]

\* a step that lands inside the warm-up and after the compare interval
EarlyStep == RADAR_PRESENCE_BANDPASS_DELAY - 190

\* the caller of the warm-up specification: EarlyStep is a third step, and
\* the configuration is left as allocated
WarmupEnv ==
    [ MainEnv EXCEPT !.steps = {0, EarlyStep, CompareStep}, !.setconfigs = {} ]

\* the configurations with the bandpass filter enabled
BandpassConfigs ==
    { Config(MODE_MACRO_ONLY, TRUE, FALSE),
      Config(MODE_MICRO_IF_MACRO, TRUE, FALSE),
      Config(MODE_MICRO_AND_MACRO, TRUE, TRUE) }

\* the caller of the timestamp specification: the events' timestamps are
\* tracked, and a frame can carry echoes in bins 1 and 2 together
TsEnv ==
    [ twin |-> FALSE, track |-> TRUE, observe |-> FALSE, decay |-> FALSE,
      max_frames |-> MaxFramesTs,
      steps |-> {0, CompareStep},
      frames |-> { ZeroFrame, [ZeroFrame EXCEPT ![1] = 1],
                   [ZeroFrame EXCEPT ![1] = 1, ![2] = 1] },
      setconfigs |-> {} ]

\* a macro-only configuration with one confirmation and the validity of
\* xensiv_radar_presence_init_config
TsConfig ==
    [ Config(MODE_MACRO_ONLY, FALSE, FALSE) EXCEPT
        !.macro_movement_confirmations = 1,
        !.macro_movement_validity_ms = 1000 ]

\* the caller of the twin specification: every call is made on two
\* detectors, one with a callback and one without
TwinEnv ==
    [ twin |-> TRUE, track |-> FALSE, observe |-> FALSE, decay |-> FALSE,
      max_frames |-> MaxFramesTwin,
      steps |-> {0, CompareStep},
      frames |-> { ZeroFrame, [ZeroFrame EXCEPT ![1] = 1] },
      setconfigs |-> {} ]

\* the configuration of the twin specification: the micro track alone, fed
\* through the decimators
TwinConfig == Config(MODE_MICRO_ONLY, FALSE, TRUE)

\* the configurations of the configuration specification: range bins up
\* to the last bin of the spectrum, beyond max_range_limit_idx = 2
CfgConfigs ==
    { [ Config(m, FALSE, FALSE) EXCEPT !.bandwidth = 2,
                                       !.min_range_bin = lo,
                                       !.max_range_bin = hi ] :
        m \in Modes, lo \in {0, 1}, hi \in {1, 2, 3} }

\* the caller of the configuration specification feeds no frame; it sets
\* a configuration of CfgConfigs, one with a longer Doppler FFT, or one
\* whose min_range_bin is above its max_range_bin
CfgEnv ==
    [ twin |-> FALSE, track |-> FALSE, observe |-> FALSE, decay |-> FALSE,
      max_frames |-> 0,
      steps |-> {}, frames |-> {},
      setconfigs |-> { c \in CfgConfigs : c.mode = MODE_MACRO_ONLY }
                     \cup { [ DefaultConfig EXCEPT !.micro_fft_size = 4 ],
                            [ DefaultConfig EXCEPT !.min_range_bin = 2,
                                                   !.max_range_bin = 1 ] } ]

\* the configurations alloc is tried with: the lengths of DefaultConfig, or
\* a chirp length or a Doppler FFT length that the FFT library does not have
AllocTryConfigs ==
    { [ DefaultConfig EXCEPT !.num_samples_per_chirp = n, !.micro_fft_size = m ] :
        n \in {DefaultConfig.num_samples_per_chirp,
                DefaultConfig.num_samples_per_chirp - 2},
        m \in {DefaultConfig.micro_fft_size,
                DefaultConfig.micro_fft_size + 1} }

\* the caller of the allocation specification feeds no frame; it sets a
\* configuration with a chirp length the library does not have, or a
\* Doppler FFT length below or above the allocated one, or DefaultConfig
AllocEnv ==
    [ CfgEnv EXCEPT !.setconfigs =
        { DefaultConfig,
          [ DefaultConfig EXCEPT !.num_samples_per_chirp = @ - 2 ],
          [ DefaultConfig EXCEPT !.micro_fft_size = @ - 1 ],
          [ DefaultConfig EXCEPT !.micro_fft_size = @ + 2 ] } ]

\* a step a little shorter than the compare interval: the macro gate stays
\* closed after it, and one compare interval later the warm-up is over and
\* the compare window of the first frame is still open
ShortStep == DefaultConfig.macro_compare_interval_ms - 5

\* the caller of the repeated-frame specification: time_ms stays, or
\* advances by ShortStep or by the compare interval
SameEnv ==
    [ MainEnv EXCEPT
        !.observe = TRUE,
        !.steps = {0, ShortStep, DefaultConfig.macro_compare_interval_ms},
        !.frames = { ZeroFrame, [ZeroFrame EXCEPT ![1] = 1] },
        !.setconfigs = {} ]

\* the configurations of the repeated-frame specification
SameConfigs ==
    { Config(MODE_MACRO_ONLY, FALSE, FALSE),
      Config(MODE_MICRO_AND_MACRO, FALSE, FALSE) }

\* the caller of the decay specification: once the detector is in
\* MACRO_PRESENCE it may go over to calls at later and later times with
\* frames that score no hit; a step can be shorter than the validity windows
DecayEnv ==
    [ MainEnv EXCEPT
        !.decay = TRUE,
        !.steps = {0, EarlyStep, CompareStep},
        !.frames = { ZeroFrame, [ZeroFrame EXCEPT ![1] = 1] },
        !.setconfigs = {} ]

\* the configurations of the decay specification: two range bins scanned by
\* a micro ring of two rows, without and with the bandpass filter, and three
\* range bins scanned by a ring of two rows
DecayConfigs ==
    { Config(MODE_MICRO_IF_MACRO, FALSE, FALSE),
      Config(MODE_MICRO_IF_MACRO, TRUE, FALSE),
      [ Config(MODE_MICRO_IF_MACRO, FALSE, FALSE) EXCEPT !.min_range_bin = 0 ] }

\* the configurations of the macro maximum specification: the macro track
\* alone and with the micro track behind it
MaxConfigs ==
    { Config(MODE_MACRO_ONLY, FALSE, FALSE),
      Config(MODE_MICRO_IF_MACRO, TRUE, FALSE) }

\* the caller of the macro maximum specification reads the macro maximum
\* between frames; the configuration is left as allocated
MaxEnv == [ MainEnv EXCEPT !.observe = TRUE, !.setconfigs = {} ]

\* the configurations of the observed specification: the three modes that
\* permit the macro track
ObsConfigs ==
    { Config(MODE_MACRO_ONLY, FALSE, FALSE),
      Config(MODE_MICRO_IF_MACRO, FALSE, FALSE),
      Config(MODE_MICRO_AND_MACRO, FALSE, FALSE) }

\* the caller of the observed specification: what process_frame did inside
\* is recorded; set_config is given a chirp length that the range FFT does
\* not have
ObsEnv ==
    [ MainEnv EXCEPT
        !.observe = TRUE,
        !.setconfigs =
            { [ c EXCEPT !.num_samples_per_chirp = @ - 2 ] : c \in ObsConfigs } ]

\* the caller of the event specification: frames with and without an echo
\* in bin 1, each later than the one before by less or by more than the
\* validity windows
EvEnv ==
    [ MainEnv EXCEPT
        !.observe = TRUE,
        !.max_frames = MaxFramesEv,
        !.steps = {EarlyStep, CompareStep},
        !.frames = { ZeroFrame, [ZeroFrame EXCEPT ![1] = 1] },
        !.setconfigs = {} ]

\* the caller of the compare-window specification: every frame comes one
\* compare interval after the one before, or ShortStep after it, so that a
\* frame can fall on either end of the compare window and inside it
WinEnv ==
    [ MainEnv EXCEPT
        !.observe = TRUE,
        !.max_frames = MaxFramesEv,
        !.steps = {ShortStep, DefaultConfig.macro_compare_interval_ms},
        !.frames = { ZeroFrame, [ZeroFrame EXCEPT ![1] = 1] },
        !.setconfigs = {} ]

\* the configurations of the compare-window specification: a mode that
\* permits the macro track and the one that does not
WinConfigs ==
    { Config(MODE_MACRO_ONLY, FALSE, FALSE),
      Config(MODE_MICRO_ONLY, FALSE, FALSE) }

\* the caller of the trigger-range specification: every frame comes
\* CompareStep after the one before, with an echo in bin 1, in bin 2, in
\* both or in none
TrigEnv ==
    [ MainEnv EXCEPT
        !.observe = TRUE,
        !.max_frames = MaxFramesTrig,
        !.steps = {CompareStep},
        !.frames = { ZeroFrame, [ZeroFrame EXCEPT ![1] = 1],
                     [ZeroFrame EXCEPT ![2] = 1],
                     [ZeroFrame EXCEPT ![1] = 1, ![2] = 1] },
        !.setconfigs = {} ]

\* the configurations of the trigger-range specification: two hot bins
\* trigger, a macro timestamp stays hot over the next frame and not over
\* the one after it; one hit confirms, or none is needed
TrigConfigs ==
    { [ Config(m, FALSE, FALSE) EXCEPT
          !.macro_trigger_range = 2,
          !.macro_movement_validity_ms = CompareStep + 100,
          !.macro_movement_confirmations = c ] :
        m \in {MODE_MACRO_ONLY, MODE_MICRO_AND_MACRO}, c \in {0, 1} }

\* the caller of the ring specification: frames at later and later times,
\* enough of them to fill the ring at one row per
\* RADAR_PRESENCE_DECIMATION_FACTOR frames
RingEnv ==
    [ MainEnv EXCEPT
        !.observe = TRUE,
        !.max_frames = MaxFramesTwin,
        !.steps = {CompareStep},
        !.frames = { ZeroFrame, [ZeroFrame EXCEPT ![1] = 1] },
        !.setconfigs = {} ]

\* the configurations of the ring specification: the micro track alone,
\* with and without decimation
RingConfigs ==
    { Config(MODE_MICRO_ONLY, FALSE, TRUE),
      Config(MODE_MICRO_ONLY, FALSE, FALSE) }

\* the configurations of the selection specification: decimation, the micro
\* track beside the macro track, one hit confirms, a macro timestamp stays
\* hot over the next frame
SelConfigs ==
    { [ Config(MODE_MICRO_AND_MACRO, FALSE, TRUE) EXCEPT
          !.macro_movement_validity_ms = CompareStep + 100,
          !.macro_movement_confirmations = 1 ] }

\* the configurations of the event specification: the modes in which the
\* micro track runs behind the macro track
EvConfigs ==
    { Config(MODE_MICRO_IF_MACRO, FALSE, FALSE),
      Config(MODE_MICRO_AND_MACRO, FALSE, FALSE) }

(****************************** the detector ********************************)
\* the observations before any process_frame or get_max_macro call; before
\* is the detector as the last process_frame call found it, scanned the
\* columns the micro track evaluated since the state last became
\* MICRO_PRESENCE (the call that made it so included), last_col the column
\* evaluated last and prev_col the one evaluated last before the last call
\* (-1: none), since the number of process_frame calls since alloc or reset
NoObs ==
    [ macro     |-> NoMacro,
      micro_hit |-> FALSE,
      frame     |-> ZeroFrame,
      same      |-> FALSE,
      seen      |-> {},
      got       |-> [ ret |-> FALSE, macro |-> -1, index |-> -1 ],
      decay     |-> FALSE,
      quiet_next |-> FALSE,
      before    |-> NullHandle,
      scanned   |-> {},
      last_col  |-> -1,
      prev_col  |-> -1,
      since     |-> 0 ]

\* angle_range_compute not called
NoAoa == [ called |-> FALSE ]

\* no task runs
NoSys == [ tasks |-> FALSE ]

\* no call made yet
NoCalls ==
    [ frame |-> 0, set_config |-> 0, reset |-> 0, round_trip |-> 0,
      get_max |-> 0, quiet |-> 0 ]

\* the state after xensiv_radar_presence_alloc returned OK
InitDetector(configs, e) ==
    /\ \E config \in configs :
         /\ AllocStatus(config) = XENSIV_RADAR_PRESENCE_OK
         /\ h = xensiv_radar_presence_alloc(config, CB_SET)
         /\ g = xensiv_radar_presence_alloc(config, CB_NULL)
         /\ env = [alloc_config |-> config] @@ e
    /\ now = 0
    /\ op = "alloc"
    /\ status = XENSIV_RADAR_PRESENCE_OK
    /\ events = <<>>
    /\ gevents = <<>>
    /\ prev_ev_ts = -1
    /\ t_first = -1
    /\ quiet = TRUE
    /\ micro_col = -1
    /\ state_after_macro = STATE_ABSENCE
    /\ ncalls = NoCalls
    /\ args = <<env.alloc_config>>
    /\ heap = AllocRun(env.alloc_config, 0).heap
    /\ obs = NoObs

\* a detector after alloc, in an application that has not called
\* angle_range_compute and runs no tasks
InitWith(configs, e) ==
    /\ InitDetector(configs, e)
    /\ aoa = NoAoa
    /\ sys = NoSys

Init == InitWith(AllocConfigs, MainEnv)

\* the timestamp of the last event delivered so far
LastEventTs ==
    IF ~env.track THEN -1
    ELSE IF events # <<>> THEN events[Len(events)].timestamp ELSE prev_ev_ts

\* whether process_frame reads a per-bin array at last_reported_idx = -1
ReadsOutside(hd) ==
    /\ hd.config.micro_fft_decimation_enabled
    /\ hd.last_reported_idx \notin DOMAIN hd.micro_detect_timestamps

\* a call of the decay phase, made dt after the call before, with result
\* res: the detector hd is a MICRO_IF_MACRO detector that is in
\* MACRO_PRESENCE or was when the phase began (decaying), the call comes at
\* a later time and its frame scores no macro hit and no micro hit
QuietCallAllowed(hd, decaying, nquiet, dt, res) ==
    /\ env.decay
    /\ hd.config.mode = MODE_MICRO_IF_MACRO
    /\ decaying \/ hd.state = STATE_MACRO_PRESENCE
    /\ nquiet < MaxQuietFrames
    /\ dt > 0
    /\ ~res.macro.hit
    /\ ~res.micro_hit

\* the caller's side of a process_frame call. A call of the decay phase
\* (still) is made on a MICRO_IF_MACRO detector that is in MACRO_PRESENCE or
\* was when the phase began, at a later time than the call before, with a
\* frame that scores no macro hit and no micro hit; the other calls are made
\* before that phase.
CallAllowed(still, dt, res) ==
    IF still
    THEN QuietCallAllowed(h, obs.decay, ncalls.quiet, dt, res)
    ELSE /\ ~obs.decay
         /\ ncalls.frame < env.max_frames

\* the caller has a call of the decay phase to make on detector hd at a time
\* after t
QuietEnabledIn(hd, t, decaying, nquiet) ==
    \E dt \in env.steps, f \in env.frames,
       ub \in IF ReadsOutside(hd) THEN UBValues ELSE {0} :
        QuietCallAllowed(hd, decaying, nquiet, dt,
            xensiv_radar_presence_process_frame(hd, f, t + dt, ub))

\* the observations after a process_frame call made dt after the last one;
\* same: the frame is the one of the call before, a process_frame call, and
\* dt is the compare interval
ObsAfterFrame(still, dt, f, res) ==
    LET o == IF env.observe
             THEN [ obs EXCEPT !.macro = res.macro,
                               !.micro_hit = res.micro_hit,
                               !.frame = f,
                               !.same = /\ op = "process_frame"
                                        /\ f = obs.frame
                                        /\ dt = h.config.macro_compare_interval_ms,
                               !.seen = @ \cup res.macro.seen,
                               !.before = h,
                               !.scanned =
                                   (IF /\ h.state = STATE_MICRO_PRESENCE
                                       /\ res.state_after_macro = STATE_MICRO_PRESENCE
                                    THEN @ ELSE {})
                                   \cup (IF res.micro_col >= 0
                                         THEN {res.micro_col} ELSE {}),
                               !.last_col = IF res.micro_col >= 0
                                            THEN res.micro_col ELSE @,
                               !.prev_col = obs.last_col,
                               !.since = @ + 1 ]
             ELSE obs
    IN [ o EXCEPT
           !.decay = @ \/ still,
           !.quiet_next =
               /\ env.decay
               /\ QuietEnabledIn(res.h, now + dt, obs.decay \/ still,
                                 ncalls.quiet + (IF still THEN 1 ELSE 0)) ]

\* one call of process_frame, on the detector and on its twin
FrameCall(still) ==
    \E dt \in env.steps, f \in env.frames,
       ub \in IF ReadsOutside(h) THEN UBValues ELSE {0},
       ubg \in IF env.twin /\ ReadsOutside(g) THEN UBValues ELSE {0} :
        /\ \E res \in {xensiv_radar_presence_process_frame(h, f, now + dt, ub)},
              resg \in {xensiv_radar_presence_process_frame(g, f, now + dt, ubg)} :
              /\ CallAllowed(still, dt, res)
              /\ obs' = ObsAfterFrame(still, dt, f, res)
              /\ h' = res.h
              /\ events' = res.ev
              /\ status' = res.status
              /\ micro_col' = res.micro_col
              /\ state_after_macro' = res.state_after_macro
              /\ g' = IF env.twin THEN resg.h ELSE g
              /\ gevents' = IF env.twin THEN resg.ev ELSE gevents
        /\ now' = now + dt
        /\ op' = "process_frame"
        /\ prev_ev_ts' = LastEventTs
        /\ t_first' = IF t_first = -1 THEN now + dt ELSE t_first
        /\ quiet' = /\ f = ZeroFrame
                     /\ IF t_first = -1 THEN now + dt = 0 ELSE quiet /\ dt > 0
        /\ ncalls' = IF still THEN [ncalls EXCEPT !.quiet = @ + 1]
                               ELSE [ncalls EXCEPT !.frame = @ + 1]
        /\ args' = <<>>
        /\ UNCHANGED <<aoa, sys, env, heap>>

\* a process_frame call with any frame of the caller's
ProcessFrame == FrameCall(FALSE)

\* a process_frame call of the decay phase
QuietFrame == FrameCall(TRUE)

\* QuietFrame as the count of calls shows it: a step that counts one more
\* call of the decay phase, possible when the caller has such a call to make
QuietCall ==
    /\ obs.quiet_next
    /\ ncalls' = [ncalls EXCEPT !.quiet = @ + 1]

\* one call of set_config
SetConfig ==
    \E config \in env.setconfigs :
        /\ h # NullHandle
        /\ ncalls.set_config < MaxSetConfig
        /\ h' = xensiv_radar_presence_set_config(h, config)
        /\ g' = IF env.twin THEN xensiv_radar_presence_set_config(g, config) ELSE g
        /\ status' = SetConfigStatus(h, config)
        /\ op' = "set_config"
        /\ events' = <<>>
        /\ gevents' = <<>>
        /\ prev_ev_ts' = LastEventTs
        /\ quiet' = FALSE
        /\ micro_col' = -1
        /\ state_after_macro' = h.state
        /\ ncalls' = [ncalls EXCEPT !.set_config = @ + 1]
        /\ args' = <<config>>
        /\ UNCHANGED <<aoa, sys, env, now, t_first, heap, obs>>

\* one call of reset
Reset ==
    /\ ncalls.reset < MaxReset
    /\ h' = xensiv_radar_presence_reset(h)
    /\ g' = IF env.twin THEN xensiv_radar_presence_reset(g) ELSE g
    /\ status' = XENSIV_RADAR_PRESENCE_OK
    /\ op' = "reset"
    /\ events' = <<>>
    /\ gevents' = <<>>
    /\ prev_ev_ts' = LastEventTs
    /\ t_first' = -1
    /\ quiet' = TRUE
    /\ micro_col' = -1
    /\ state_after_macro' = h.state
    /\ ncalls' = [ncalls EXCEPT !.reset = @ + 1]
    /\ args' = <<>>
    /\ obs' = IF env.observe
              THEN [ obs EXCEPT !.macro = NoMacro, !.micro_hit = FALSE, !.seen = {},
                                !.scanned = {}, !.last_col = -1, !.prev_col = -1,
                                !.since = 0 ]
              ELSE obs
    /\ UNCHANGED <<aoa, sys, env, now, heap>>

\* get_config into a struct, then set_config of that struct
GetSetConfig ==
    /\ ncalls.round_trip < MaxRoundTrip
    /\ LET config == xensiv_radar_presence_get_config(h)
       IN /\ h' = xensiv_radar_presence_set_config(h, config)
          /\ g' = IF env.twin THEN xensiv_radar_presence_set_config(g, config) ELSE g
          /\ status' = SetConfigStatus(h, config)
          /\ args' = <<config>>
    /\ op' = "get_set_config"
    /\ events' = <<>>
    /\ gevents' = <<>>
    /\ prev_ev_ts' = LastEventTs
    /\ micro_col' = -1
    /\ state_after_macro' = h.state
    /\ ncalls' = [ncalls EXCEPT !.round_trip = @ + 1]
    /\ UNCHANGED <<aoa, sys, env, now, t_first, quiet, heap, obs>>

\* one call of get_max_macro
GetMaxMacro ==
    /\ ncalls.get_max < MaxGetMax
    /\ LET res == xensiv_radar_presence_get_max_macro(h)
       IN /\ h' = res.h
          /\ obs' = [ obs EXCEPT
                        !.got = [ ret |-> res.ret, macro |-> res.macro,
                                  index |-> res.index ],
                        !.seen = IF res.ret THEN {} ELSE @ ]
    /\ g' = IF env.twin THEN xensiv_radar_presence_get_max_macro(g).h ELSE g
    /\ op' = "get_max_macro"
    /\ status' = XENSIV_RADAR_PRESENCE_OK
    /\ events' = <<>>
    /\ gevents' = <<>>
    /\ prev_ev_ts' = LastEventTs
    /\ micro_col' = -1
    /\ state_after_macro' = h.state
    /\ ncalls' = [ncalls EXCEPT !.get_max = @ + 1]
    /\ args' = <<>>
    /\ UNCHANGED <<aoa, sys, env, now, t_first, quiet, heap>>

\* the call of xensiv_radar_presence_alloc, with malloc_fptr failing at the
\* allocation the run has chosen
Alloc ==
    /\ op = "none"
    /\ LET run == AllocRun(env.alloc_config, env.fail_at)
       IN /\ status' = run.status
          /\ heap' = run.heap
          /\ h' = IF run.status = XENSIV_RADAR_PRESENCE_OK
                  THEN xensiv_radar_presence_alloc(env.alloc_config, CB_SET)
                  ELSE NullHandle
    /\ op' = "alloc"
    /\ args' = <<env.alloc_config>>
    /\ UNCHANGED <<aoa, sys, g, env, now, events, gevents, prev_ev_ts, t_first, quiet,
                   micro_col, state_after_macro, ncalls, obs>>

Next == ProcessFrame \/ SetConfig \/ Reset

Spec == Init /\ [][Next]_vars

\* a macro-only detector whose events' timestamps are tracked
InitTs == InitWith({TsConfig}, TsEnv)
NextTs == ProcessFrame
SpecTs == InitTs /\ [][NextTs]_vars

\* two detectors given the same calls, one with a callback, one without
InitTwin == InitWith({TwinConfig}, TwinEnv)
NextTwin == ProcessFrame
SpecTwin == InitTwin /\ [][NextTwin]_vars

\* the configuration calls alone, on a detector allocated with any range bins
InitCfg == InitWith(CfgConfigs, CfgEnv)
NextCfg == GetSetConfig \/ SetConfig \/ Reset
SpecCfg == InitCfg /\ [][NextCfg]_vars

\* frames, reads of the macro maximum and resets
InitMax == InitWith(MaxConfigs, MaxEnv)
NextMax == ProcessFrame \/ GetMaxMacro \/ Reset
SpecMax == InitMax /\ [][NextMax]_vars

\* frames fed at the compare interval and at a shorter one
InitSame == InitWith(SameConfigs, SameEnv)
NextSame == ProcessFrame
SpecSame == InitSame /\ [][NextSame]_vars

\* frames until MACRO_PRESENCE, then the decay phase. process_frame keeps
\* being called in that phase (the radar task feeds every frame it acquires
\* to process_frame): as long as the caller has a call of the decay phase to
\* make, one is made
InitDecay == InitWith(DecayConfigs, DecayEnv)
NextDecay == ProcessFrame \/ QuietFrame
SpecDecay == InitDecay /\ [][NextDecay]_vars /\ WF_ncalls(QuietCall)

\* frames at steps shorter and longer than the validity windows, with what
\* process_frame did inside recorded
InitEv == InitWith(EvConfigs, EvEnv)
NextEv == ProcessFrame
SpecEv == InitEv /\ [][NextEv]_vars

\* frames until the ring has wrapped, and reset
InitRing == InitWith(RingConfigs, RingEnv)
NextRing == ProcessFrame \/ Reset
SpecRing == InitRing /\ [][NextRing]_vars

\* frames with echoes in one bin or two, on a detector with decimation
InitSel == InitWith(SelConfigs, TrigEnv)
NextSel == ProcessFrame
SpecSel == InitSel /\ [][NextSel]_vars

\* frames with echoes in one bin or two, on a trigger range of two
InitTrig == InitWith(TrigConfigs, TrigEnv)
NextTrig == ProcessFrame
SpecTrig == InitTrig /\ [][NextTrig]_vars

\* frames at the compare interval and a little before it
InitWin == InitWith(WinConfigs, WinEnv)
NextWin == ProcessFrame
SpecWin == InitWin /\ [][NextWin]_vars

\* frames and a set_config, with what process_frame did inside recorded
InitObs == InitWith(ObsConfigs, ObsEnv)
NextObs == ProcessFrame \/ SetConfig
SpecObs == InitObs /\ [][NextObs]_vars

\* alloc with one allocation failing or none, then configuration calls
InitAlloc ==
    /\ \E config \in AllocTryConfigs, fail \in 0..Len(AllocPoints) :
         env = [alloc_config |-> config, fail_at |-> fail] @@ AllocEnv
    /\ h = NullHandle
    /\ g = NullHandle
    /\ now = 0
    /\ op = "none"
    /\ status = XENSIV_RADAR_PRESENCE_OK
    /\ events = <<>>
    /\ gevents = <<>>
    /\ prev_ev_ts = -1
    /\ t_first = -1
    /\ quiet = TRUE
    /\ micro_col = -1
    /\ state_after_macro = STATE_ABSENCE
    /\ ncalls = NoCalls
    /\ args = <<>>
    /\ heap = EmptyHeap
    /\ obs = NoObs
    /\ aoa = NoAoa
    /\ sys = NoSys
NextAlloc == Alloc \/ SetConfig
SpecAlloc == InitAlloc /\ [][NextAlloc]_vars

\* the detector with the bandpass filter enabled, fed at finer time steps
InitWarmup == InitWith(BandpassConfigs, WarmupEnv)
NextWarmup == ProcessFrame \/ Reset
SpecWarmup == InitWarmup /\ [][NextWarmup]_vars

(***************************** angle and range ******************************)
\* the bins the peak search visits: 1 .. NUM_SAMPLES_PER_CHIRP / 2 - 1, for a
\* chirp of 8 samples
AoaSearchBins == 1..3

\* frame_data == NULL
NullFrame == [ null |-> TRUE ]

\* the spectrum values of a target: nothing, a weak echo, and strong echoes
\* at phases 0, 45, 90 and 180 degrees
AoaValues == { <<0, 0>>, <<1, 0>>, <<4, 0>>, <<3, 3>>, <<0, 4>>, <<-4, 0>> }

\* a frame with a target in bin b seen as rx1, rx2, rx3 by the three
\* antennas and clutter c in the next bin of all three
AoaFrame(b, rx1, rx2, rx3, c) ==
    [ antenna_data |->
        [ ant \in 0..2 |->
            [ bin \in 0..3 |->
                IF bin = b THEN <<rx1, rx2, rx3>>[ant + 1]
                ELSE IF bin = (b % 3) + 1 THEN c
                ELSE <<0, 0>> ] ] ]

\* the frames angle_range_compute is given
AoaFrames ==
    { AoaFrame(b, rx1, rx2, rx3, c) :
        b \in AoaSearchBins, rx1 \in AoaValues, rx2 \in AoaValues,
        rx3 \in AoaValues, c \in { <<0, 0>>, <<1, 0>> } }
    \cup { NullFrame }

\* the caller's result struct before the call: it is not initialised, valid
\* holds whatever the stack held
AoaResultBefore(garbage) ==
    [ valid |-> garbage, peak_bin |-> 0, peak_mag |-> 0,
      dphi_x |-> 0, dphi_y |-> 0, azimuth |-> 0 ]

\* re^2 + im^2
AoaMagnitude(z) == (z[1] * z[1]) + (z[2] * z[2])

RECURSIVE PeakSearch(_, _, _, _)
\* the peak search over antenna 0 from bin on: the first bin of the highest
\* magnitude above peak_mag
PeakSearch(spectrum, bin, peak_mag, peak_bin) ==
    IF bin \notin AoaSearchBins
    THEN [ peak_mag |-> peak_mag, peak_bin |-> peak_bin ]
    ELSE IF AoaMagnitude(spectrum[bin]) > peak_mag
         THEN PeakSearch(spectrum, bin + 1, AoaMagnitude(spectrum[bin]), bin)
         ELSE PeakSearch(spectrum, bin + 1, peak_mag, peak_bin)

\* a * conj(b)
CrossConj(a, b) ==
    << (a[1] * b[1]) + (a[2] * b[2]), (a[2] * b[1]) - (a[1] * b[2]) >>

\* atan2f(y, x) in units of 22.5 degrees, for y >= 0
Atan2Upper(y, x) ==
    IF x > 0
    THEN IF y = 0 THEN 0 ELSE IF y < x THEN 1 ELSE IF y = x THEN 2 ELSE 3
    ELSE IF x = 0
    THEN IF y = 0 THEN 0 ELSE 4
    ELSE IF y = 0 THEN 8 ELSE IF y > -x THEN 5 ELSE IF y = -x THEN 6 ELSE 7

\* atan2f(y, x) in units of 22.5 degrees
Atan2Half(y, x) == IF y >= 0 THEN Atan2Upper(y, x) ELSE -Atan2Upper(-y, x)

\* angle_range_compute: the value returned and the result struct after it.
\* u and v are dphi_x and dphi_y times the same positive factor (both
\* antenna spacings are 2.5 mm), so atan2f(v, u) = atan2f(dphi_y, dphi_x)
angle_range_compute(frame_data, result) ==
    IF frame_data = NullFrame
    THEN [ ret |-> FALSE, result |-> result ]
    ELSE LET peak == PeakSearch(frame_data.antenna_data[0], 1, 0, 0)
         IN IF peak.peak_mag <= 0 \/ peak.peak_bin = 0
            THEN [ ret |-> FALSE, result |-> [ result EXCEPT !.valid = FALSE ] ]
            ELSE LET rx1 == frame_data.antenna_data[0][peak.peak_bin]
                     rx2 == frame_data.antenna_data[1][peak.peak_bin]
                     rx3 == frame_data.antenna_data[2][peak.peak_bin]
                     cross_x == CrossConj(rx2, rx3)
                     cross_y == CrossConj(rx1, rx3)
                     dphi_x == Atan2Half(cross_x[2], cross_x[1])
                     dphi_y == Atan2Half(cross_y[2], cross_y[1])
                 IN [ ret |-> TRUE,
                      result |-> [ valid    |-> TRUE,
                                   peak_bin |-> peak.peak_bin,
                                   peak_mag |-> peak.peak_mag,
                                   dphi_x   |-> dphi_x,
                                   dphi_y   |-> dphi_y,
                                   azimuth  |-> Atan2Half(dphi_y, dphi_x) ] ]

\* the application is about to call angle_range_compute on a frame
InitAoa ==
    /\ InitDetector({DefaultConfig}, MainEnv)
    /\ sys = NoSys
    /\ \E f \in AoaFrames, garbage \in BOOLEAN :
         aoa = [ called |-> FALSE, frame |-> f,
                 result |-> AoaResultBefore(garbage), ret |-> FALSE ]

\* the call of angle_range_compute
AngleRangeCompute ==
    /\ ~aoa.called
    /\ \E res \in { angle_range_compute(aoa.frame, aoa.result) } :
         aoa' = [ aoa EXCEPT !.called = TRUE,
                             !.result = res.result,
                             !.ret = res.ret ]
    /\ UNCHANGED <<h, g, env, now, op, status, events, gevents, prev_ev_ts,
                   t_first, quiet, micro_col, state_after_macro, ncalls, args,
                   heap, obs, sys>>

NextAoa == AngleRangeCompute
SpecAoa == InitAoa /\ [][NextAoa]_vars

(********************* the console task and its commands ********************)
\* main.c: the priority of the task that acquires the frames, and of the
\* task that takes the commands (tskIDLE_PRIORITY is 0)
RADAR_TASK_PRIORITY == 2
COMMAND_TASK_PRIORITY == 1

\* the two tasks that use the detector
Tasks == {"acquisition", "console"}

\* the priority xTaskCreate is given for a task
Priority(task) ==
    IF task = "acquisition" THEN RADAR_TASK_PRIORITY ELSE COMMAND_TASK_PRIORITY

\* the caller of the task specification: frames come CompareStep apart
CliEnv ==
    [ MainEnv EXCEPT
        !.max_frames = MaxFramesCli,
        !.steps = {CompareStep},
        !.frames = { ZeroFrame, [ZeroFrame EXCEPT ![1] = 1] },
        !.setconfigs = {} ]

\* the configurations of the detector the console is given
CliConfigs ==
    { Config(MODE_MACRO_ONLY, FALSE, FALSE),
      Config(MODE_MICRO_IF_MACRO, FALSE, FALSE) }

\* the configuration commands: set_max_range writes max_range_bin,
\* set_presence_mode writes mode, into the copy get_config gave
CliCommands ==
    { [name |-> "set_max_range", value |-> 1],
      [name |-> "set_max_range", value |-> 2],
      [name |-> "set_presence_mode", value |-> MODE_MACRO_ONLY],
      [name |-> "set_presence_mode", value |-> MODE_MICRO_ONLY] }

\* the struct a command passes to set_config
CommandConfig(config, cmd) ==
    IF cmd.name = "set_max_range"
    THEN [config EXCEPT !.max_range_bin = cmd.value]
    ELSE [config EXCEPT !.mode = cmd.value]

\* the tasks started: the console waits for a command, the acquisition task
\* waits for the notification that a frame is ready
InitCli ==
    /\ InitDetector(CliConfigs, CliEnv)
    /\ aoa = NoAoa
    /\ sys = [ tasks |-> TRUE,
               console |-> "prompt",
               config |-> h.config,
               commands |-> 0,
               acquisition |-> "wait",
               frame |-> ZeroFrame,
               notified |-> FALSE,
               interrupts |-> 0,
               scheduler_suspended |-> FALSE ]

\* a task is ready unless it blocks: the acquisition task blocks waiting for
\* the notification; the console at the prompt is made ready by its input
Ready(task) ==
    IF task = "acquisition"
    THEN sys.acquisition = "in_frame" \/ sys.notified
    ELSE TRUE

\* the task the scheduler lets run: with the scheduler suspended, the task
\* that suspended it; else a ready task of the highest priority
Runs(task) ==
    /\ Ready(task)
    /\ IF sys.scheduler_suspended
       THEN task = "console"
       ELSE \A other \in Tasks : Ready(other) => Priority(other) <= Priority(task)

\* fault injection: a vTaskSuspendAll that leaves the scheduler running
vTaskSuspendAllNoop(s) == s

\* FreeRTOS: no task switch until xTaskResumeAll; interrupts stay enabled
vTaskSuspendAll(s) == [ s EXCEPT !.scheduler_suspended = TRUE ]

xTaskResumeAll(s) == [ s EXCEPT !.scheduler_suspended = FALSE ]

\* the interrupt of the sensor: a frame is ready, the acquisition task is
\* notified
FrameInterrupt ==
    /\ sys.interrupts < env.max_frames
    /\ ~sys.notified
    /\ sys' = [ sys EXCEPT !.notified = TRUE, !.interrupts = @ + 1 ]
    /\ UNCHANGED <<h, g, env, now, op, status, events, gevents, prev_ev_ts,
                   t_first, quiet, micro_col, state_after_macro, ncalls, args,
                   heap, obs, aoa>>

\* the acquisition task takes the notification and enters process_frame
ProcessFrameEnters ==
    /\ Runs("acquisition")
    /\ sys.acquisition = "wait"
    /\ sys.notified
    /\ \E dt \in env.steps, f \in env.frames :
         /\ now' = now + dt
         /\ sys' = [ sys EXCEPT !.acquisition = "in_frame",
                                !.notified = FALSE,
                                !.frame = f ]
    /\ UNCHANGED <<h, g, env, op, status, events, gevents, prev_ev_ts,
                   t_first, quiet, micro_col, state_after_macro, ncalls, args,
                   heap, obs, aoa>>

\* process_frame returns to the acquisition task, which waits again
ProcessFrameReturns ==
    /\ Runs("acquisition")
    /\ sys.acquisition = "in_frame"
    /\ \E ub \in IF ReadsOutside(h) THEN UBValues ELSE {0} :
         \E res \in {xensiv_radar_presence_process_frame(h, sys.frame, now, ub)} :
            /\ h' = res.h
            /\ events' = res.ev
            /\ status' = res.status
            /\ micro_col' = res.micro_col
            /\ state_after_macro' = res.state_after_macro
    /\ op' = "process_frame"
    /\ t_first' = IF t_first = -1 THEN now ELSE t_first
    /\ quiet' = FALSE
    /\ ncalls' = [ncalls EXCEPT !.frame = @ + 1]
    /\ args' = <<>>
    /\ sys' = [ sys EXCEPT !.acquisition = "wait" ]
    /\ UNCHANGED <<g, env, now, gevents, prev_ev_ts, heap, obs, aoa>>

\* a configuration command begins: get_config into a local struct, and the
\* parameter of the command written into it
CliGetConfig ==
    /\ Runs("console")
    /\ sys.console = "prompt"
    /\ sys.commands < MaxCommands
    /\ \E cmd \in CliCommands :
         sys' = [ sys EXCEPT
                    !.console = "got_config",
                    !.config = CommandConfig(xensiv_radar_presence_get_config(h), cmd),
                    !.commands = @ + 1 ]
    /\ UNCHANGED <<h, g, env, now, op, status, events, gevents, prev_ev_ts,
                   t_first, quiet, micro_col, state_after_macro, ncalls, args,
                   heap, obs, aoa>>

\* the command suspends the scheduler
CliSuspendAll ==
    /\ Runs("console")
    /\ sys.console = "got_config"
    /\ sys' = [ vTaskSuspendAll(sys) EXCEPT !.console = "suspended" ]
    /\ UNCHANGED <<h, g, env, now, op, status, events, gevents, prev_ev_ts,
                   t_first, quiet, micro_col, state_after_macro, ncalls, args,
                   heap, obs, aoa>>

\* the command calls set_config
CliSetConfig ==
    /\ Runs("console")
    /\ sys.console = "suspended"
    /\ h' = xensiv_radar_presence_set_config(h, sys.config)
    /\ status' = SetConfigStatus(h, sys.config)
    /\ op' = "set_config"
    /\ events' = <<>>
    /\ micro_col' = -1
    /\ state_after_macro' = h.state
    /\ ncalls' = [ncalls EXCEPT !.set_config = @ + 1]
    /\ args' = <<sys.config>>
    /\ sys' = [ sys EXCEPT !.console = "config_set" ]
    /\ UNCHANGED <<g, env, now, gevents, prev_ev_ts, t_first, quiet, heap,
                   obs, aoa>>

\* the command calls reset
CliReset ==
    /\ Runs("console")
    /\ sys.console = "config_set"
    /\ h' = xensiv_radar_presence_reset(h)
    /\ status' = XENSIV_RADAR_PRESENCE_OK
    /\ op' = "reset"
    /\ events' = <<>>
    /\ t_first' = -1
    /\ micro_col' = -1
    /\ state_after_macro' = h.state
    /\ ncalls' = [ncalls EXCEPT !.reset = @ + 1]
    /\ args' = <<>>
    /\ sys' = [ sys EXCEPT !.console = "reset_done" ]
    /\ UNCHANGED <<g, env, now, gevents, prev_ev_ts, quiet, heap, obs, aoa>>

\* the command resumes the scheduler and prints its answer
CliResumeAll ==
    /\ Runs("console")
    /\ sys.console = "reset_done"
    /\ sys' = [ xTaskResumeAll(sys) EXCEPT !.console = "prompt" ]
    /\ UNCHANGED <<h, g, env, now, op, status, events, gevents, prev_ev_ts,
                   t_first, quiet, micro_col, state_after_macro, ncalls, args,
                   heap, obs, aoa>>

NextCli ==
    \/ FrameInterrupt
    \/ ProcessFrameEnters
    \/ ProcessFrameReturns
    \/ CliGetConfig
    \/ CliSuspendAll
    \/ CliSetConfig
    \/ CliReset
    \/ CliResumeAll
SpecCli == InitCli /\ [][NextCli]_vars

(********************************* claims ***********************************)
\* C1: every event delivered by process_frame has range_bin -1 or within
\* [min_range_bin, max_range_bin] of the configuration in force.
C1_RangeBinWithinConfig ==
    \A k \in 1..Len(events) :
        \/ events[k].range_bin = -1
        \/ /\ h.config.min_range_bin <= events[k].range_bin
           /\ events[k].range_bin <= h.config.max_range_bin

\* an event was delivered for a bin below min_range_bin
C1_EventBelowMinRangeBin ==
    \E k \in 1..Len(events) :
        /\ events[k].range_bin >= 0
        /\ events[k].range_bin < h.config.min_range_bin

\* C2: after alloc and reset, zero-valued frames at timestamps that start at
\* 0 and increase return OK, deliver no event and leave the state ABSENCE.
C2_QuietRoomSilent ==
    (op = "process_frame" /\ quiet) =>
        /\ status = XENSIV_RADAR_PRESENCE_OK
        /\ events = <<>>
        /\ h.state = STATE_ABSENCE

\* a zero-valued first frame at time 0 delivered a MICRO_PRESENCE event
C2_QuietRoomEvent ==
    /\ op = "process_frame" /\ quiet
    /\ \E k \in 1..Len(events) : events[k].state = STATE_MICRO_PRESENCE

\* C3: with the bandpass filter enabled, no MACRO_PRESENCE event is delivered
\* by a call whose time_ms is earlier than 490 ms after the first frame
\* processed since alloc or the most recent reset.
C3_NoMacroEventInWarmup ==
    ( /\ op = "process_frame"
      /\ h.config.macro_fft_bandpass_filter_enabled
      /\ \E k \in 1..Len(events) : events[k].state = STATE_MACRO_PRESENCE )
    => now >= t_first + RADAR_PRESENCE_BANDPASS_DELAY

\* a MACRO_PRESENCE event was delivered with the bandpass filter enabled, to a
\* detector whose first frame came later than time 0
C3_MacroEventAfterWarmup ==
    /\ op = "process_frame"
    /\ h.config.macro_fft_bandpass_filter_enabled
    /\ \E k \in 1..Len(events) : events[k].state = STATE_MACRO_PRESENCE
    /\ t_first > 0

\* C4: the state is always one of ABSENCE, MACRO_PRESENCE, MICRO_PRESENCE, in
\* the detector and in every event delivered.
C4_StateIsOneOfThree ==
    /\ h.state \in {STATE_ABSENCE, STATE_MACRO_PRESENCE, STATE_MICRO_PRESENCE}
    /\ \A k \in 1..Len(events) :
          events[k].state \in
              {STATE_ABSENCE, STATE_MACRO_PRESENCE, STATE_MICRO_PRESENCE}

\* switch_to_absence has run after a presence: an ABSENCE event was delivered
C4_AbsenceAfterPresence ==
    /\ op = "process_frame"
    /\ h.state = STATE_ABSENCE
    /\ \E k \in 1..Len(events) : events[k].state = STATE_ABSENCE

\* C5: mode gating. In MACRO_ONLY no micro column is evaluated and no
\* MICRO_PRESENCE event is delivered; in MICRO_IF_MACRO no micro column is
\* evaluated on a frame whose macro stage leaves the state at ABSENCE or
\* MACRO_PRESENCE; in MICRO_ONLY no MACRO_PRESENCE event is delivered and
\* process_frame leaves the macro timestamps and the macro hit counter as
\* they were.
C5_ModeGating ==
    /\ [] ( op = "process_frame" =>
              /\ h.config.mode = MODE_MACRO_ONLY =>
                    /\ micro_col = -1
                    /\ \A k \in 1..Len(events) :
                          events[k].state # STATE_MICRO_PRESENCE
              /\ ( /\ h.config.mode = MODE_MICRO_IF_MACRO
                   /\ state_after_macro \in {STATE_ABSENCE, STATE_MACRO_PRESENCE} )
                    => micro_col = -1
              /\ h.config.mode = MODE_MICRO_ONLY =>
                    \A k \in 1..Len(events) :
                        events[k].state # STATE_MACRO_PRESENCE )
    /\ [][ (op' = "process_frame" /\ h.config.mode = MODE_MICRO_ONLY) =>
              /\ h'.macro_detect_timestamps = h.macro_detect_timestamps
              /\ h'.macro_movement_hit_count = h.macro_movement_hit_count ]_vars

\* in MICRO_IF_MACRO a micro column was evaluated, the macro stage having
\* left the state at MICRO_PRESENCE
C5_MicroIfMacroEvaluates ==
    /\ op = "process_frame"
    /\ h.config.mode = MODE_MICRO_IF_MACRO
    /\ state_after_macro = STATE_MICRO_PRESENCE
    /\ micro_col >= h.config.min_range_bin

\* C6: a single process_frame call delivers at most one event.
C6_AtMostOneEventPerCall == Len(events) <= 1

\* one call delivered a MACRO_PRESENCE event and then a MICRO_PRESENCE event
C6_MacroAndMicroEventInOneCall ==
    /\ op = "process_frame"
    /\ Len(events) = 2
    /\ events[1].state = STATE_MACRO_PRESENCE
    /\ events[2].state = STATE_MICRO_PRESENCE

\* C7: with non-decreasing time_ms, the timestamps of successively delivered
\* events are non-decreasing.
C7_EventTimestampsMonotonic ==
    /\ (events # <<>> /\ prev_ev_ts # -1) => prev_ev_ts <= events[1].timestamp
    /\ \A k \in 1..(Len(events) - 1) :
          events[k].timestamp <= events[k + 1].timestamp

\* a MACRO_PRESENCE event was delivered after an ABSENCE event of a later
\* timestamp
C7_MacroEventOlderThanAbsence ==
    /\ op = "process_frame"
    /\ events # <<>>
    /\ events[1].state = STATE_MACRO_PRESENCE
    /\ prev_ev_ts # -1
    /\ events[1].timestamp < prev_ev_ts

\* C8: two detectors given the same configuration and the same frames and
\* timestamps, one with a callback and one with a NULL callback, have the
\* same state, reported indices and detection timestamps after every call,
\* and the NULL-callback detector delivers no event.
C8_NullCallbackTwinAgrees ==
    env.twin =>
        /\ g.state = h.state
        /\ g.last_reported_idx = h.last_reported_idx
        /\ g.last_macro_reported_idx = h.last_macro_reported_idx
        /\ g.last_micro_reported_idx = h.last_micro_reported_idx
        /\ g.macro_detect_timestamps = h.macro_detect_timestamps
        /\ g.micro_detect_timestamps = h.micro_detect_timestamps
        /\ gevents = <<>>

\* the twins left one call in different states
C8_TwinStatesDiffer ==
    /\ env.twin
    /\ op = "process_frame"
    /\ g.state # h.state

\* C9: reset leaves every macro and micro per-bin timestamp zero, the ring
\* write index zero, the ring-full flag false, the state ABSENCE, the
\* last-reported indices -1 and the bandpass warm-up deadline 0; a second
\* reset changes nothing.
C9_ResetPostcondition ==
    op = "reset" =>
        /\ \A i \in DOMAIN h.macro_detect_timestamps : h.macro_detect_timestamps[i] = 0
        /\ \A i \in DOMAIN h.micro_detect_timestamps : h.micro_detect_timestamps[i] = 0
        /\ h.micro_fft_write_row_idx = 0
        /\ h.micro_fft_decimation_write_row_idx = 0
        /\ ~h.micro_fft_calc_ready
        /\ h.state = STATE_ABSENCE
        /\ h.last_reported_idx = -1
        /\ h.last_macro_reported_idx = -1
        /\ h.last_micro_reported_idx = -1
        /\ h.bandpass_initial_time_ms = 0
        /\ xensiv_radar_presence_reset(h) = h

\* a reset was made on a detector in a presence state, after frames
C9_ResetFromPresence ==
    /\ op = "reset"
    /\ state_after_macro # STATE_ABSENCE
    /\ t_first = -1
    /\ ncalls.frame >= 2

\* C10: get_config into a struct followed by set_config of that struct
\* returns OK and leaves the stored configuration and the detection state
\* unchanged, also on a detector just allocated.
C10_ConfigRoundTripIsNoOp ==
    [][ op' = "get_set_config" =>
          /\ status' = XENSIV_RADAR_PRESENCE_OK
          /\ h' = h ]_vars

\* a round trip made right after alloc left a max_range_bin other than the
\* one the detector was allocated with
C10_RoundTripClamped ==
    /\ op = "get_set_config"
    /\ ncalls.set_config = 0
    /\ status = XENSIV_RADAR_PRESENCE_OK
    /\ h.config.max_range_bin < env.alloc_config.max_range_bin

\* C11: after a successful alloc and after every successful set_config the
\* stored configuration satisfies min_range_bin <= max_range_bin <=
\* max_range_limit_idx <= num_samples_per_chirp / 2.
C11_StoredRangeBinsOrdered ==
    ( /\ op \in {"alloc", "set_config", "get_set_config"}
      /\ status = XENSIV_RADAR_PRESENCE_OK )
    => /\ h.config.min_range_bin <= h.config.max_range_bin
       /\ h.config.max_range_bin <= h.max_range_limit_idx
       /\ h.max_range_limit_idx <= h.config.num_samples_per_chirp \div 2

\* a successful set_config stored a min_range_bin above max_range_bin
C11_SetConfigStoredMinAboveMax ==
    /\ op = "set_config"
    /\ status = XENSIV_RADAR_PRESENCE_OK
    /\ h.config = args[1]
    /\ h.config.min_range_bin > h.config.max_range_bin

\* C12: set_config with a micro_fft_size greater than the one given at alloc
\* returns FFT_LEN_ERROR and leaves the stored configuration and all
\* detection state as they were.
C12_RejectedSetConfigChangesNothing ==
    [][ ( /\ op' = "set_config"
          /\ args'[1].micro_fft_size > env.alloc_config.micro_fft_size )
        => /\ status' = XENSIV_RADAR_PRESENCE_FFT_LEN_ERROR
           /\ xensiv_radar_presence_get_config(h') =
                  xensiv_radar_presence_get_config(h)
           /\ h' = h ]_vars

\* a set_config with a longer Doppler FFT and other fields changed was
\* rejected, after an accepted one
C12_LongerFftRejected ==
    /\ op = "set_config"
    /\ status = XENSIV_RADAR_PRESENCE_FFT_LEN_ERROR
    /\ args[1].micro_fft_size > env.alloc_config.micro_fft_size
    /\ args[1].bandwidth # h.config.bandwidth
    /\ h.config # env.alloc_config

\* C13: alloc returns FFT_LEN_ERROR whenever num_samples_per_chirp or
\* micro_fft_size of its configuration is not a supported FFT length (and the
\* context itself could be allocated), and set_config returns FFT_LEN_ERROR
\* whenever one of the two lengths of the new configuration is not supported,
\* also when micro_fft_size is below the allocation-time value.
C13_UnsupportedLengthRejected ==
    ( /\ op \in {"alloc", "set_config"}
      /\ env.fail_at # PointOf("context")
      /\ \/ args[1].num_samples_per_chirp \notin SupportedRfftLen
         \/ args[1].micro_fft_size \notin SupportedCfftLen )
    => status = XENSIV_RADAR_PRESENCE_FFT_LEN_ERROR

\* set_config returned OK for a chirp length that is not supported
C13_UnsupportedChirpLengthAccepted ==
    /\ op = "set_config"
    /\ args[1].num_samples_per_chirp \notin SupportedRfftLen
    /\ status = XENSIV_RADAR_PRESENCE_OK
    /\ h.config.num_samples_per_chirp = args[1].num_samples_per_chirp

\* C14: when an allocation inside alloc fails, alloc returns MEM_ERROR, the
\* output handle is NULL, no block is left allocated, every block allocated
\* before the failing one has been passed to the free function, and no
\* block has been passed to it twice. (A failed alloc of any kind leaves the
\* handle NULL and no block allocated.)
C14_FailedAllocReleasesEverything ==
    /\ ( /\ op = "alloc"
         /\ env.fail_at # 0
         /\ \/ env.fail_at = PointOf("context")
            \/ AllocStatus(env.alloc_config) = XENSIV_RADAR_PRESENCE_OK )
       => ( /\ status = XENSIV_RADAR_PRESENCE_MEM_ERROR
            /\ \A k \in 1..(env.fail_at - 1) : heap.frees[k] = 1 )
    /\ ( op = "alloc" /\ status # XENSIV_RADAR_PRESENCE_OK )
       => ( /\ h = NullHandle
            /\ heap.live = {}
            /\ \A k \in DOMAIN heap.frees : heap.frees[k] <= 1 )

\* alloc failed at macro_fft_buffer, whose NULL is tested only after
\* last_macro_compare was allocated, and released that later block
C14_FailureBeforeLaterAllocation ==
    /\ op = "alloc"
    /\ status = XENSIV_RADAR_PRESENCE_MEM_ERROR
    /\ env.fail_at = PointOf("macro_fft_buffer")
    /\ heap.frees[PointOf("last_macro_compare")] = 1
    /\ heap.frees[PointOf("context")] = 1

\* C15: when the range FFT reports a failure, process_frame returns the
\* IFX_DSP_ERROR status; FFT_LEN_ERROR is returned only by alloc and
\* set_config.
C15_ProcessFrameReturnsDspError ==
    op = "process_frame" =>
        /\ ~RangeFftOk(h) => status = XENSIV_RADAR_PRESENCE_IFX_DSP_ERROR
        /\ status # XENSIV_RADAR_PRESENCE_FFT_LEN_ERROR

\* process_frame returned FFT_LEN_ERROR on a failure of the range FFT
C15_ProcessFrameReturnedFftLenError ==
    /\ op = "process_frame"
    /\ ~RangeFftOk(h)
    /\ status = XENSIV_RADAR_PRESENCE_FFT_LEN_ERROR

\* C16: get_max_macro returns true exactly when a macro comparison has been
\* evaluated since alloc, the last reset and the last call that returned
\* true; it then returns the highest score computed since then with a bin
\* that scored it, and clears both.
C16_GetMaxMacroOncePerComparison ==
    [][ op' = "get_max_macro" =>
          /\ obs'.got.ret = (obs.seen # {})
          /\ obs'.got.ret =>
                /\ <<obs'.got.index, obs'.got.macro>> \in obs.seen
                /\ \A p \in obs.seen : p[2] <= obs'.got.macro
                /\ h'.max_macro_idx = -1
                /\ h'.max_macro = 0 ]_vars

\* get_max_macro returned false although a macro comparison had been
\* evaluated since alloc: an earlier call had read and cleared the maximum
C16_FalseAfterRead ==
    /\ op = "get_max_macro"
    /\ ~obs.got.ret
    /\ ncalls.reset = 0
    /\ h.macro_last_compare_ms > 0

\* C17: when process_frame is given the frame of the call before at that
\* call's time plus macro_compare_interval_ms, every macro score it computes
\* is 0 and no bin is marked as a macro hit.
C17_SameFrameScoresZero ==
    ( op = "process_frame" /\ obs.same )
    => /\ \A p \in obs.macro.seen : p[2] = 0
       /\ ~obs.macro.hit

\* the frame of the call before, fed again one compare interval later, was
\* compared and scored a macro hit
C17_SameFrameHit ==
    /\ op = "process_frame"
    /\ obs.same
    /\ obs.macro.compared
    /\ obs.macro.hit
    /\ \E i \in DOMAIN h.macro_detect_timestamps :
          h.macro_detect_timestamps[i] =
              UAdd(now, h.config.macro_movement_validity_ms)

\* the decay phase has just begun: its first call was made on a detector in
\* MACRO_PRESENCE
DecayBegan == obs.decay /\ ncalls.quiet = 1

\* the frames to come can all be quiet: before the bound on the calls of the
\* decay phase, the caller always has a frame that scores no macro hit and
\* no micro hit
FramesStayQuiet == [](ncalls.quiet < MaxQuietFrames => obs.quiet_next)

\* an ABSENCE event was delivered by the call that ended in ABSENCE
AbsenceDelivered ==
    /\ h.state = STATE_ABSENCE
    /\ \E k \in 1..Len(events) : events[k].state = STATE_ABSENCE

C19_MacroDetectionSetsMacroPresence ==
    ( /\ op = "process_frame"
      /\ h.config.mode # MODE_MICRO_ONLY
      /\ obs.macro.evaluated
      /\ obs.macro.idx >= 0 )
    => state_after_macro = STATE_MACRO_PRESENCE

\* a macro evaluation scored a hit and found a bin to report, and its macro
\* stage left the state at MICRO_PRESENCE
C19_MacroRefiredInMicroPresence ==
    /\ op = "process_frame"
    /\ h.config.mode # MODE_MICRO_ONLY
    /\ obs.macro.hit
    /\ obs.macro.idx >= 0
    /\ state_after_macro = STATE_MICRO_PRESENCE

\* C20: in MICRO_AND_MACRO, when in one process_frame call the macro track
\* reports a bin and the micro track scores a hit, the state at the end of
\* the call is MACRO_PRESENCE.
C20_MacroWinsTie ==
    ( /\ op = "process_frame"
      /\ h.config.mode = MODE_MICRO_AND_MACRO
      /\ \E k \in 1..Len(events) : events[k].state = STATE_MACRO_PRESENCE
      /\ obs.micro_hit )
    => h.state = STATE_MACRO_PRESENCE

\* the macro track reported a bin, the micro track scored a hit in the same
\* call, and the call ended in MICRO_PRESENCE
C20_MicroOverwroteMacro ==
    /\ op = "process_frame"
    /\ h.config.mode = MODE_MICRO_AND_MACRO
    /\ events # <<>>
    /\ events[1].state = STATE_MACRO_PRESENCE
    /\ obs.macro.idx = events[1].range_bin
    /\ obs.micro_hit
    /\ h.state = STATE_MICRO_PRESENCE

\* the last call was a process_frame call that returned OK on a detector
\* with a callback and left the state different from the one it found
StateChangedInCall ==
    /\ op = "process_frame"
    /\ status = XENSIV_RADAR_PRESENCE_OK
    /\ h.callback # CB_NULL
    /\ obs.before # NullHandle
    /\ obs.before.state # h.state

\* the last call delivered an event for the state it left: for a presence
\* state the reported bin with its detection deadline minus the validity
\* window of the track, for ABSENCE bin -1 and the time of the call
EventForNewState ==
    \E k \in 1..Len(events) :
        /\ events[k].state = h.state
        /\ CASE h.state = STATE_ABSENCE ->
                  /\ events[k].range_bin = -1
                  /\ events[k].timestamp = now
             [] h.state = STATE_MACRO_PRESENCE ->
                  /\ events[k].range_bin \in DOMAIN h.macro_detect_timestamps
                  /\ events[k].timestamp =
                        USub(h.macro_detect_timestamps[events[k].range_bin],
                             h.config.macro_movement_validity_ms)
             [] OTHER ->
                  /\ events[k].range_bin \in DOMAIN h.micro_detect_timestamps
                  /\ events[k].timestamp =
                        USub(h.micro_detect_timestamps[events[k].range_bin],
                             h.config.micro_movement_validity_ms)

\* C21: with a callback set, every process_frame call that changes the
\* state to MACRO_PRESENCE or MICRO_PRESENCE delivers in that call an event
\* with the new state, the reported bin and the bin's deadline minus the
\* validity window; every change to ABSENCE delivers an event with
\* range_bin -1 and the time of the call.
C21_StateChangeDeliversEvent == StateChangedInCall => EventForNewState

\* a call at a time after 0 found the detector in MACRO_PRESENCE, its micro
\* track scored a hit in the bin it had reported before, and the call left
\* MICRO_PRESENCE without delivering any event
C21_SilentChangeToMicroPresence ==
    /\ StateChangedInCall
    /\ t_first > 0
    /\ obs.before.state = STATE_MACRO_PRESENCE
    /\ h.state = STATE_MICRO_PRESENCE
    /\ obs.micro_hit
    /\ h.last_micro_reported_idx = obs.before.last_micro_reported_idx
    /\ events = <<>>

\* the last call took the detector from MICRO_PRESENCE to ABSENCE
MicroToAbsence ==
    /\ op = "process_frame"
    /\ obs.before # NullHandle
    /\ obs.before.state = STATE_MICRO_PRESENCE
    /\ h.state = STATE_ABSENCE

\* C22: the detector goes from MICRO_PRESENCE to ABSENCE only on a frame
\* where no micro timestamp in [min_range_bin, max_range_bin] is hot and
\* every column in that range has been evaluated by the micro track at
\* least once since the state last became MICRO_PRESENCE.
C22_AbsenceOnlyAfterFullScan ==
    MicroToAbsence =>
        /\ \A i \in h.config.min_range_bin .. h.config.max_range_bin :
               ~(now <= h.micro_detect_timestamps[i])
        /\ \A i \in h.config.min_range_bin .. h.config.max_range_bin :
               i \in obs.scanned

\* a call took a detector with the all-columns flag set from MICRO_PRESENCE
\* to ABSENCE at a time after every micro deadline, although since the state
\* became MICRO_PRESENCE the micro track had evaluated column min_range_bin
\* only
C22_AbsenceWithColumnNeverScanned ==
    /\ MicroToAbsence
    /\ t_first > 0
    /\ obs.before.micro_fft_all_calculated
    /\ \A i \in h.config.min_range_bin .. h.config.max_range_bin :
           ~(now <= h.micro_detect_timestamps[i])
    /\ obs.scanned = {h.config.min_range_bin}
    /\ h.config.max_range_bin > h.config.min_range_bin
    /\ \E k \in 1..Len(events) : events[k].state = STATE_ABSENCE

\* a process_frame call whose mode permits the macro track, made after the
\* bandpass warm-up deadline
MacroPermittedAfterWarmup ==
    /\ op = "process_frame"
    /\ obs.before # NullHandle
    /\ obs.before.config.mode # MODE_MICRO_ONLY
    /\ now > h.bandpass_initial_time_ms

MacroEvaluationConfirmed ==
    /\ op = "process_frame"
    /\ obs.before # NullHandle
    /\ obs.macro.evaluated
    /\ h.macro_movement_hit_count >= h.config.macro_movement_confirmations

\* the bins of [min_range_bin, max_range_bin] whose macro timestamp is hot at
\* the time of the last call
HotMacroBinsNow ==
    { i \in h.config.min_range_bin .. h.config.max_range_bin :
        now <= h.macro_detect_timestamps[i] }

\* C24: on a macro evaluation with macro_hit_count >=
\* macro_movement_confirmations, the macro track reports a bin if and only if
\* some bin of [min_range_bin, max_range_bin] is hot and either the number of
\* hot bins reaches macro_trigger_range or the state is not ABSENCE; the bin
\* reported is the smallest hot bin, and in every other case it reports -1
C24_MacroReportsSmallestHotBin ==
    MacroEvaluationConfirmed =>
        obs.macro.idx =
            IF /\ HotMacroBinsNow # {}
               /\ \/ Cardinality(HotMacroBinsNow) >= h.config.macro_trigger_range
                  \/ obs.before.state # STATE_ABSENCE
            THEN SetMin(HotMacroBinsNow)
            ELSE -1

\* a macro evaluation outside ABSENCE that reported the one hot bin, fewer
\* than macro_trigger_range
C24_OneHotBinReportedInPresence ==
    /\ MacroEvaluationConfirmed
    /\ obs.before.state # STATE_ABSENCE
    /\ Cardinality(HotMacroBinsNow) = 1
    /\ Cardinality(HotMacroBinsNow) < h.config.macro_trigger_range
    /\ obs.macro.idx = 2

\* a process_frame call on a full ring that did not return before the micro
\* track
MicroTrackRanOnFullRing ==
    /\ op = "process_frame"
    /\ status = XENSIV_RADAR_PRESENCE_OK
    /\ obs.before # NullHandle
    /\ h.micro_fft_calc_ready
    /\ h.config.mode # MODE_MACRO_ONLY
    /\ ~( /\ h.config.mode = MODE_MICRO_IF_MACRO
          /\ state_after_macro \in {STATE_ABSENCE, STATE_MACRO_PRESENCE} )

\* the column after c in the cyclic scan of [min_range_bin, max_range_bin]
ColumnAfter(c) ==
    IF c >= h.config.max_range_bin THEN h.config.min_range_bin ELSE c + 1

\* C25: once the history ring is full, a process_frame call on which the
\* micro track runs evaluates one column; the column lies in
\* [min_range_bin, max_range_bin]; it is the one after the column evaluated
\* last before, in the cyclic order min_range_bin, ..., max_range_bin; and
\* the all-columns-computed flag is set when the scan wraps (an ABSENCE
\* report in the same call clears it again)
C25_ColumnScanCyclic ==
    MicroTrackRanOnFullRing =>
        /\ micro_col \in h.config.min_range_bin .. h.config.max_range_bin
        /\ obs.prev_col >= 0 => micro_col = ColumnAfter(obs.prev_col)
        /\ micro_col = h.config.max_range_bin =>
               \/ h.micro_fft_all_calculated
               \/ \E k \in 1..Len(events) : events[k].state = STATE_ABSENCE

\* the micro track evaluated min_range_bin twice in a row although the range
\* has a second column
C25_FirstColumnEvaluatedAgain ==
    /\ MicroTrackRanOnFullRing
    /\ t_first > 0
    /\ obs.prev_col = h.config.min_range_bin
    /\ micro_col = h.config.min_range_bin
    /\ h.config.max_range_bin > h.config.min_range_bin

\* a process_frame call that returned OK
FrameProcessed ==
    /\ op = "process_frame"
    /\ status = XENSIV_RADAR_PRESENCE_OK
    /\ obs.before # NullHandle

\* whether the last call wrote a row of the ring: every call without
\* decimation, every RADAR_PRESENCE_DECIMATION_FACTOR-th call since alloc or
\* reset with it
RowDue ==
    \/ ~h.config.micro_fft_decimation_enabled
    \/ obs.since % RADAR_PRESENCE_DECIMATION_FACTOR = 0

\* C26: with the configuration fixed since alloc or reset, the ring write
\* index advances by one on every 8th process_frame call with decimation and
\* on every call without it, and is unchanged on the other calls; on
\* reaching micro_fft_size it wraps to 0 and the ring-full flag is set; the
\* flag, once set, stays set over every process_frame call
C26_RingWriteIndexAdvance ==
    FrameProcessed =>
        /\ h.micro_fft_write_row_idx =
               IF ~RowDue
               THEN obs.before.micro_fft_write_row_idx
               ELSE IF obs.before.micro_fft_write_row_idx + 1 = h.config.micro_fft_size
                    THEN 0
                    ELSE obs.before.micro_fft_write_row_idx + 1
        /\ ( /\ RowDue
             /\ obs.before.micro_fft_write_row_idx + 1 = h.config.micro_fft_size )
               => h.micro_fft_calc_ready
        /\ obs.before.micro_fft_calc_ready => h.micro_fft_calc_ready

\* after a reset, the 16th call with decimation wrapped the ring of two rows
C26_DecimatedRingWrappedAfterReset ==
    /\ FrameProcessed
    /\ ncalls.reset = 1
    /\ h.config.micro_fft_decimation_enabled
    /\ obs.since = 2 * RADAR_PRESENCE_DECIMATION_FACTOR
    /\ ~obs.before.micro_fft_calc_ready
    /\ h.micro_fft_calc_ready
    /\ h.micro_fft_write_row_idx = 0

\* last_reported_idx as the micro selection of the last call found it: the
\* bin of the macro report of that call, if it made one
PrevReportedIdx ==
    IF \E k \in 1..Len(events) : events[k].state = STATE_MACRO_PRESENCE
    THEN (CHOOSE e \in { events[k] : k \in 1..Len(events) } :
              e.state = STATE_MACRO_PRESENCE).range_bin
    ELSE obs.before.last_reported_idx

\* a process_frame call with decimation that reached the micro selection
\* with a bin reported before
DecimatedSelectionRan ==
    /\ FrameProcessed
    /\ h.config.micro_fft_decimation_enabled
    /\ h.config.mode # MODE_MACRO_ONLY
    /\ ~( /\ h.config.mode = MODE_MICRO_IF_MACRO
          /\ state_after_macro \in {STATE_ABSENCE, STATE_MACRO_PRESENCE} )
    /\ PrevReportedIdx >= 0

\* the bins beyond the previously reported one whose macro timestamp is hot
HotMacroBeyondPrev ==
    { i \in (PrevReportedIdx + 1) .. h.config.max_range_bin :
        now <= h.macro_detect_timestamps[i] }

\* the hot bins whose micro timestamp is more than 2000 ms after that of the
\* previously reported bin
ReselectCandidates ==
    { i \in h.config.min_range_bin .. h.config.max_range_bin :
        /\ now <= h.micro_detect_timestamps[i]
        /\ h.micro_detect_timestamps[i]
             - h.micro_detect_timestamps[PrevReportedIdx] > MICRO_RESELECT_GAP_MS }

\* C27: with decimation, the micro bin of a frame is the previously reported
\* bin if its micro timestamp is hot and no macro timestamp beyond it is
\* hot; otherwise the smallest bin beyond last_reported_idx with a hot macro
\* timestamp; otherwise, among the hot bins whose micro timestamp is more
\* than 2000 ms after the previously reported bin's, one of the highest
\* micro_detect_distances; and -1 when none applies
C27_DecimatedMicroBin ==
    DecimatedSelectionRan =>
        IF /\ now <= h.micro_detect_timestamps[PrevReportedIdx]
           /\ HotMacroBeyondPrev = {}
        THEN h.last_micro_reported_idx = PrevReportedIdx
        ELSE IF HotMacroBeyondPrev # {}
        THEN h.last_micro_reported_idx = SetMin(HotMacroBeyondPrev)
        ELSE IF ReselectCandidates # {}
        THEN /\ h.last_micro_reported_idx \in ReselectCandidates
             /\ \A j \in ReselectCandidates :
                    h.micro_detect_distances[h.last_micro_reported_idx]
                        >= h.micro_detect_distances[j]
        ELSE h.last_micro_reported_idx = -1

\* the previously reported bin was kept although a macro timestamp beyond it
\* was hot, the macro timestamp of the previously reported bin being hot too
C27_PrevBinKeptDespiteHotMacroBeyond ==
    /\ DecimatedSelectionRan
    /\ t_first > 0
    /\ HotMacroBeyondPrev # {}
    /\ now <= h.macro_detect_timestamps[PrevReportedIdx]
    /\ now <= h.micro_detect_timestamps[PrevReportedIdx]
    /\ h.last_micro_reported_idx = PrevReportedIdx

\* angle_range_compute returned true for the frame it was given
AoaComputed ==
    /\ aoa.called
    /\ aoa.frame # NullFrame
    /\ aoa.ret

\* the phase of antenna a against antenna b in the result's peak bin
PhaseBetween(a, b) ==
    LET cross == CrossConj(aoa.frame.antenna_data[a][aoa.result.peak_bin],
                           aoa.frame.antenna_data[b][aoa.result.peak_bin])
    IN Atan2Half(cross[2], cross[1])

\* C28: angle_range_compute takes dphi_x from RX1 and RX3 and dphi_y from RX2
\* and RX3 in the peak bin, so that a frame whose only phase offset is one of
\* RX1 against RX3 (here a positive one) gives dphi_y = 0, hence v = 0, and
\* an azimuth of 0 degrees
C28_AzimuthFromRx1Rx3 ==
    AoaComputed =>
        /\ aoa.result.dphi_x = PhaseBetween(0, 2)
        /\ aoa.result.dphi_y = PhaseBetween(1, 2)
        /\ ( /\ PhaseBetween(1, 2) = 0
             /\ PhaseBetween(0, 2) > 0
             /\ PhaseBetween(0, 2) < 8 )
               => /\ aoa.result.dphi_y = 0
                  /\ aoa.result.azimuth = 0

\* RX1 leads RX3 by 45 degrees, RX2 and RX3 are in phase, and the azimuth
\* computed is 90 degrees
C28_Rx1OffsetGivesAzimuth90 ==
    /\ AoaComputed
    /\ PhaseBetween(1, 2) = 0
    /\ PhaseBetween(0, 2) = 2
    /\ aoa.result.dphi_x = 0
    /\ aoa.result.dphi_y = 2
    /\ aoa.result.azimuth = 4

\* the peak magnitude of the frame given: the highest of antenna 0 over the
\* bins searched
AoaPeakMagnitude == PeakSearch(aoa.frame.antenna_data[0], 1, 0, 0).peak_mag

\* 10 * log10(mag) < -30, in the model's unit of power
BelowMinus30dB(mag) == mag < 10

\* C29: angle_range_compute returns false with result.valid = false whenever
\* the peak power of the selected bin is below -30 dB, in particular for the
\* all-zero frame, and returns valid = true only for a peak at or above
\* -30 dB
C29_WeakPeakInvalid ==
    (aoa.called /\ aoa.frame # NullFrame) =>
        /\ BelowMinus30dB(AoaPeakMagnitude) => (~aoa.ret /\ ~aoa.result.valid)
        /\ aoa.result.valid => ~BelowMinus30dB(AoaPeakMagnitude)

\* a peak of -40 dB was returned as a valid result
C29_ValidBelowMinus30dB ==
    /\ aoa.called
    /\ aoa.frame # NullFrame
    /\ AoaPeakMagnitude = 1
    /\ aoa.ret
    /\ aoa.result.valid


(******************************* C30 ****************************************)
\* a step of the acquisition task: it enters process_frame or returns from it
AcquisitionStep == sys'.acquisition # sys.acquisition

\* a step in which the command calls set_config or reset
CommandCallStep ==
    /\ sys.console \in {"suspended", "config_set"}
    /\ sys'.console # sys.console

BinsUntilFirst(lo, hi, hot) ==
    { i \in lo..hi : \A j \in lo..(i - 1) : j \notin hot }

\* the indices at which the macro track of a call on hd uses
\* macro_detect_timestamps and micro_detect_timestamps: the bins hit by the
\* comparison (line 660), the count of the hot bins (691), the search of the
\* first hot bin (707), the reported bin (728), the arming of the micro
\* track (759)
MacroTrackIndices(hd, src, time_ms) ==
    IF ~MacroGate(hd, time_ms)
    THEN {}
    ELSE LET r == MacroStage([ h |-> hd, ev |-> <<>>, macro |-> NoMacro ],
                             src, time_ms)
             range == hd.config.min_range_bin .. hd.config.max_range_bin
             hits == { p[1] : p \in { q \in r.macro.seen :
                                        q[2] >= hd.config.macro_threshold } }
             count == IF r.macro.hit THEN hd.macro_movement_hit_count + 1 ELSE 0
             confirmed == count >= hd.config.macro_movement_confirmations
             hot == { i \in range :
                        \/ i \in hits
                        \/ time_ms <= hd.macro_detect_timestamps[i] }
             searched == \/ Cardinality(hot) >= hd.config.macro_trigger_range
                         \/ hd.state # STATE_ABSENCE
             armed == /\ r.macro.idx # hd.last_macro_reported_idx
                      /\ r.macro.idx = -1
                      /\ hd.config.mode # MODE_MACRO_ONLY
         IN hits
            \cup (IF confirmed THEN range ELSE {})
            \cup (IF confirmed /\ searched
                  THEN BinsUntilFirst(hd.config.min_range_bin,
                                      hd.config.max_range_bin, hot)
                  ELSE {})
            \cup (IF r.macro.idx # hd.last_macro_reported_idx /\ r.macro.idx >= 0
                  THEN {r.macro.idx} ELSE {})
            \cup (IF armed THEN range ELSE {})

\* the indices at which the micro track of a call uses the per-bin arrays, hd
\* being the detector after the ring stage: the evaluated column when it
\* scores a hit (lines 892-894), the selection of the bin (906-968), and the
\* reported bin (981)
MicroTrackIndices(hd, time_ms) ==
    LET h5 == MicroFftStage(hd, time_ms)
        lo == h5.config.min_range_bin
        hi == h5.config.max_range_bin
        last == h5.last_reported_idx
        hot_macro == { i \in DOMAIN h5.macro_detect_timestamps :
                         time_ms <= h5.macro_detect_timestamps[i] }
        hot_micro == { i \in DOMAIN h5.micro_detect_timestamps :
                         time_ms <= h5.micro_detect_timestamps[i] }
        written == IF hd.micro_fft_calc_ready /\ MicroHit(hd)
                   THEN {hd.micro_fft_calc_col_idx} ELSE {}
        decimated(ub) ==
            LET all_previous_event_expired ==
                    \A i \in lo..last :
                        ~(time_ms <= ReadAt(h5.macro_detect_timestamps, i, ub))
                macro_not_displayed ==
                    /\ all_previous_event_expired
                    /\ \E i \in (last + 1)..hi : i \in hot_macro
            IN (lo..last)
               \cup (IF all_previous_event_expired
                     THEN BinsUntilFirst(last + 1, hi, hot_macro) ELSE {})
               \cup {last}
               \cup (IF /\ ~( /\ time_ms <= ReadAt(h5.micro_detect_timestamps, last, ub)
                              /\ ~macro_not_displayed )
                        /\ h5.micro_fft_all_calculated
                        /\ ~macro_not_displayed
                     THEN lo..hi ELSE {})
        idx(ub) == MicroMovementIdx(h5, time_ms, ub)
    IN written
       \cup (IF h5.config.micro_fft_decimation_enabled
             THEN UNION { decimated(ub) : ub \in UBValues }
             ELSE BinsUntilFirst(lo, hi, hot_micro))
       \cup UNION { IF idx(ub) # h5.last_micro_reported_idx /\ idx(ub) >= 0
                    THEN {idx(ub)} ELSE {} : ub \in UBValues }

\* the indices at which a process_frame call on hd uses
\* macro_detect_timestamps, micro_detect_timestamps and
\* micro_detect_distances
PerBinIndices(hd, spectrum, time_ms) ==
    LET h0 == BandpassInit(hd, time_ms)
    IN IF ~RangeFftOk(h0)
       THEN {}
       ELSE LET src == MacroSource(h0, spectrum)
                h1 == [ h0 EXCEPT !.macro_fft_bandpass_fir_states =
                                      BandpassStates(h0, spectrum) ]
                h2 == IF ~h1.macro_last_compare_init
                      THEN [ h1 EXCEPT !.last_macro_compare = src,
                                       !.macro_last_compare_init = TRUE ]
                      ELSE h1
                r3 == MacroStage([ h |-> h2, ev |-> <<>>, macro |-> NoMacro ],
                                 src, time_ms)
                h4 == RingStage(r3.h, spectrum)
            IN MacroTrackIndices(h2, src, time_ms)
               \cup (IF MicroSkipped(h4) THEN {} ELSE MicroTrackIndices(h4, time_ms))

\* the indices the last call used, a process_frame call
IndicesOfLastCall == PerBinIndices(obs.before, obs.frame, now)

\* C31: every read or write of macro_detect_timestamps,
\* micro_detect_timestamps and micro_detect_distances made by process_frame
\* uses an index inside the arrays, [0, num_samples_per_chirp/2).
C31_PerBinIndicesInBounds ==
    op = "process_frame" =>
        IndicesOfLastCall \subseteq DOMAIN obs.before.micro_detect_timestamps

\* a process_frame call after a reset, with decimation enabled, read
\* micro_detect_timestamps at last_reported_idx = -1
C31_ReadAtMinusOneAfterReset ==
    /\ op = "process_frame"
    /\ ncalls.reset > 0
    /\ obs.before.config.micro_fft_decimation_enabled
    /\ obs.before.last_reported_idx = -1
    /\ -1 \in IndicesOfLastCall

(******************************* C32 ****************************************)
\* the caller of the shrunk-ring specification: frames at later and later
\* times, and a set_config that lowers micro_fft_size below the size given to
\* alloc
ShrinkEnv ==
    [ MainEnv EXCEPT
        !.observe = TRUE,
        !.max_frames = MaxFramesShrink,
        !.steps = {CompareStep},
        !.frames = { ZeroFrame, [ZeroFrame EXCEPT ![1] = 1] },
        !.setconfigs = { [ Config(MODE_MACRO_ONLY, FALSE, FALSE)
                             EXCEPT !.micro_fft_size = 1 ] } ]

\* the configurations of the shrunk-ring specification: the ring is written
\* in every mode, the macro-only mode never evaluates it
ShrinkConfigs == { Config(MODE_MACRO_ONLY, FALSE, FALSE) }

InitShrink == InitWith(ShrinkConfigs, ShrinkEnv)
NextShrink == ProcessFrame \/ SetConfig \/ Reset
SpecShrink == InitShrink /\ [][NextShrink]_vars

\* the rows of the ring allocated by alloc (lines 382-394)
RingRows(hd) == 0 .. (hd.max_micro_fft_size - 1)

\* C32: after any sequence of alloc, reset, successful set_config and
\* process_frame calls, every write into the history ring uses a row inside
\* the ring allocated by alloc, and the write index returns to 0 within
\* micro_fft_size appended rows (it never reaches the allocated size).
C32_RingWriteRowInsideRing ==
    /\ (FrameProcessed /\ RowDue)
          => obs.before.micro_fft_write_row_idx \in RingRows(obs.before)
    /\ h.micro_fft_write_row_idx \in RingRows(h)

\* after set_config lowered micro_fft_size with the write index already at
\* the new size, a process_frame call wrote the row behind the ring
C32_RowWrittenBehindRing ==
    /\ FrameProcessed
    /\ RowDue
    /\ ncalls.set_config > 0
    /\ obs.before.config.micro_fft_size < obs.before.max_micro_fft_size
    /\ obs.before.micro_fft_write_row_idx >= obs.before.max_micro_fft_size

(******************************* C33 ****************************************)
\* the configurations of the range-limit specification: max_range_limit_idx
\* is 2; max_range_bin is below it or on it, the bandpass filter on or off
LimitConfigs ==
    { [ Config(MODE_MACRO_ONLY, bp, FALSE) EXCEPT !.bandwidth = 2,
                                                  !.max_range_bin = hi ] :
        bp \in BOOLEAN, hi \in {1, 2} }

\* the caller of the range-limit specification: frames at later and later
\* times, and a set_config with max_range_bin above max_range_limit_idx
LimitEnv ==
    [ MainEnv EXCEPT
        !.observe = TRUE,
        !.max_frames = MaxFramesLimit,
        !.steps = {CompareStep},
        !.frames = { ZeroFrame, [ZeroFrame EXCEPT ![2] = 1] },
        !.setconfigs = { [ Config(MODE_MACRO_ONLY, bp, FALSE)
                             EXCEPT !.bandwidth = 2, !.max_range_bin = 3 ] :
                         bp \in BOOLEAN } ]

InitLimit == InitWith(LimitConfigs, LimitEnv)
NextLimit == ProcessFrame \/ SetConfig
SpecLimit == InitLimit /\ [][NextLimit]_vars

\* the range bins the last call consulted: those the macro comparison
\* scored (lines 632-636) and the column the micro track read (850-859)
BinsConsulted ==
    { p[1] : p \in obs.macro.seen }
        \cup (IF micro_col >= 0 THEN {micro_col} ELSE {})

\* C33: every range-bin index consulted by the macro comparison and by the
\* micro column read is strictly below max_range_limit_idx, the number of
\* bins the bandpass bank filters and one row of the ring holds, for every
\* configuration accepted by alloc or set_config.
C33_ConsultedBinsBelowRangeLimit ==
    FrameProcessed => \A i \in BinsConsulted : i < obs.before.max_range_limit_idx

\* after set_config stored a max_range_bin clamped to max_range_limit_idx,
\* the macro comparison of a detector with the bandpass filter scored the
\* bin max_range_limit_idx, which the filter bank does not filter
C33_UnfilteredBinCompared ==
    /\ FrameProcessed
    /\ ncalls.set_config > 0
    /\ obs.before.config.macro_fft_bandpass_filter_enabled
    /\ obs.before.config.max_range_bin = obs.before.max_range_limit_idx
    /\ obs.macro.compared
    /\ obs.before.max_range_limit_idx \in BinsConsulted

(******************************* C34 ****************************************)
\* a configuration of the mode-change specification: macro timestamps stay
\* hot over one frame, micro timestamps over none
ModeConfig(m) ==
    [ Config(m, FALSE, FALSE) EXCEPT
        !.macro_movement_validity_ms = CompareStep + 100 ]

ModeConfigs == { ModeConfig(MODE_MICRO_AND_MACRO), ModeConfig(MODE_MACRO_ONLY) }

\* the caller of the mode-change specification: frames at later and later
\* times, and a set_config that changes the mode alone
ModeEnv ==
    [ MainEnv EXCEPT
        !.observe = TRUE,
        !.track = TRUE,
        !.max_frames = MaxFramesMode,
        !.steps = {CompareStep},
        !.frames = { ZeroFrame, [ZeroFrame EXCEPT ![1] = 1] },
        !.setconfigs = { ModeConfig(MODE_MACRO_ONLY) } ]

InitMode == InitWith(ModeConfigs, ModeEnv)
NextMode == ProcessFrame \/ SetConfig
SpecMode == InitMode /\ [][NextMode]_vars

\* the last call entered switch_to_absence from the macro track (line 745):
\* the macro evaluation found no bin, after a report of one, in MACRO_ONLY
MacroTrackCalledAbsence ==
    /\ FrameProcessed
    /\ obs.macro.evaluated
    /\ obs.macro.idx = -1
    /\ obs.before.last_macro_reported_idx # -1
    /\ obs.before.config.mode = MODE_MACRO_ONLY

\* the last call entered switch_to_absence from the micro track (line 997)
MicroTrackCalledAbsence ==
    /\ FrameProcessed
    /\ ~MacroTrackCalledAbsence
    /\ \E k \in DOMAIN events : events[k].state = STATE_ABSENCE

\* C34: the assertion at the entry of switch_to_absence (state != ABSENCE)
\* holds on every call, for any sequence of process_frame and set_config
\* calls including mode changes without a reset: no ABSENCE event is
\* delivered while the state is already ABSENCE. (Nothing before line 745
\* changes the state in a call that reaches it; line 997 is guarded by
\* state == MICRO_PRESENCE.)
C34_AbsenceEnteredFromPresence ==
    /\ MacroTrackCalledAbsence => obs.before.state # STATE_ABSENCE
    /\ MicroTrackCalledAbsence => h.state = STATE_ABSENCE

\* after set_config changed the mode to MACRO_ONLY, the macro track of a
\* detector in ABSENCE dropped a bin reported before and delivered a second
\* ABSENCE event
C34_AbsenceDeliveredInAbsence ==
    /\ MacroTrackCalledAbsence
    /\ ncalls.set_config > 0
    /\ obs.before.state = STATE_ABSENCE
    /\ \E k \in DOMAIN events : events[k].state = STATE_ABSENCE

(******************************* C35 ****************************************)
\* the configurations of the fresh-twin specification: the micro track with
\* and without decimation, and both tracks behind the bandpass filter
FreshConfigs ==
    { Config(MODE_MICRO_ONLY, FALSE, TRUE),
      Config(MODE_MICRO_ONLY, FALSE, FALSE),
      Config(MODE_MICRO_AND_MACRO, TRUE, FALSE) }

\* the caller of the fresh-twin specification: frames at later and later
\* times, given to both detectors
FreshEnv ==
    [ TwinEnv EXCEPT
        !.max_frames = MaxFramesFresh,
        !.steps = {CompareStep} ]

\* the detector is reset; beside it a detector is allocated with the
\* configuration of the first and the same callback
ResetBesideFresh ==
    /\ ncalls.reset < MaxReset
    /\ ncalls.frame > 0
    /\ h' = xensiv_radar_presence_reset(h)
    /\ g' = xensiv_radar_presence_alloc(h.config, h.callback)
    /\ status' = XENSIV_RADAR_PRESENCE_OK
    /\ op' = "reset"
    /\ events' = <<>>
    /\ gevents' = <<>>
    /\ prev_ev_ts' = LastEventTs
    /\ t_first' = -1
    /\ quiet' = TRUE
    /\ micro_col' = -1
    /\ state_after_macro' = h.state
    /\ ncalls' = [ncalls EXCEPT !.reset = @ + 1]
    /\ args' = <<>>
    /\ UNCHANGED <<aoa, sys, env, now, heap, obs>>

InitFresh == InitWith(FreshConfigs, FreshEnv)
NextFresh == ProcessFrame \/ ResetBesideFresh
SpecFresh == InitFresh /\ [][NextFresh]_vars

\* C35: after reset, the statuses, events and states of the process_frame
\* calls that follow depend only on the configuration and on the frames and
\* timestamps given after the reset: the reset detector and a detector
\* freshly allocated with the same configuration agree on the same input.
C35_ResetEqualsFresh ==
    (ncalls.reset > 0 /\ op = "process_frame") =>
        /\ events = gevents
        /\ h.state = g.state

\* the reset detector and the fresh one, given the same frames since the
\* reset, hold different rows in their rings and score differently, and the
\* first is in MICRO_PRESENCE while the second is in ABSENCE: the first
\* decimated row after the reset is the output of decimators that still hold
\* a frame fed before it
C35_ResetDetectorScoresOldFrame ==
    /\ ncalls.reset > 0
    /\ op = "process_frame"
    /\ h.config.micro_fft_decimation_enabled
    /\ h.micro_fft_buffer # g.micro_fft_buffer
    /\ h.max_micro > g.max_micro
    /\ h.state = STATE_MICRO_PRESENCE
    /\ g.state = STATE_ABSENCE

(***************** set_callback beside process_frame (C36) ******************)
\* the caller of the set_callback specification: frames CompareStep apart
RaceEnv ==
    [ CliEnv EXCEPT !.max_frames = MaxFramesRace ]

RaceConfigs == { Config(MODE_MACRO_ONLY, FALSE, FALSE) }

\* no callback call made yet
NoCall == [ made |-> FALSE, fn |-> CB_NULL, fn_from |-> 0, data_from |-> 0 ]

\* the console waits for a key outside the setting mode; the other task waits
\* for a frame. callback_from names the set_callback call that stored the
\* callback the handle holds, callback_data the call that stored its
\* callback_data (0: the values given at allocation)
InitRace ==
    /\ InitDetector(RaceConfigs, RaceEnv)
    /\ aoa = NoAoa
    /\ sys = [ tasks |-> TRUE,
               setting_mode |-> FALSE,
               console |-> "getchar",
               set_calls |-> 0,
               callback_from |-> 0,
               callback_data |-> 0,
               acquisition |-> "wait",
               pending |-> <<>>,
               fn |-> "unread",
               fn_from |-> -1,
               data_from |-> -1,
               call |-> NoCall ]

\* the callback console_task passes to set_callback: NULL on entering the
\* setting mode, presence_detection_cb on leaving it
ConsoleCallback == IF sys.setting_mode THEN CB_SET ELSE CB_NULL

\* console_task toggles the setting mode and enters set_callback, whose
\* first statement stores the callback
SetCallbackStoresCallback ==
    /\ sys.console = "getchar"
    /\ sys.set_calls < MaxSetCallback
    /\ h' = [ h EXCEPT !.callback = ConsoleCallback ]
    /\ sys' = [ sys EXCEPT !.console = "callback_stored",
                           !.setting_mode = ~@,
                           !.set_calls = @ + 1,
                           !.callback_from = sys.set_calls + 1 ]
    /\ UNCHANGED <<g, env, now, op, status, events, gevents, prev_ev_ts,
                   t_first, quiet, micro_col, state_after_macro, ncalls, args,
                   heap, obs, aoa>>

\* the second statement of set_callback stores callback_data; the console
\* waits for the next key
SetCallbackStoresData ==
    /\ sys.console = "callback_stored"
    /\ sys' = [ sys EXCEPT !.console = "getchar",
                           !.callback_data = sys.set_calls ]
    /\ UNCHANGED <<h, g, env, now, op, status, events, gevents, prev_ev_ts,
                   t_first, quiet, micro_col, state_after_macro, ncalls, args,
                   heap, obs, aoa>>

\* process_frame is entered: the frame decides the state the detector ends
\* in and the events it has to deliver, whatever the callback is; the guarded
\* callback calls follow one by one
RaceFrameEnters ==
    /\ sys.acquisition = "wait"
    /\ ncalls.frame < env.max_frames
    /\ \E dt \in env.steps, f \in env.frames :
         \E res \in { xensiv_radar_presence_process_frame(
                          [h EXCEPT !.callback = CB_SET], f, now + dt, 0) } :
            /\ now' = now + dt
            /\ h' = [ res.h EXCEPT !.callback = h.callback ]
            /\ status' = res.status
            /\ micro_col' = res.micro_col
            /\ state_after_macro' = res.state_after_macro
            /\ sys' = [ sys EXCEPT !.acquisition = "test",
                                   !.pending = res.ev ]
    /\ op' = "process_frame"
    /\ events' = <<>>
    /\ t_first' = IF t_first = -1 THEN now' ELSE t_first
    /\ quiet' = FALSE
    /\ ncalls' = [ncalls EXCEPT !.frame = @ + 1]
    /\ args' = <<>>
    /\ UNCHANGED <<g, env, gevents, prev_ev_ts, heap, obs, aoa>>

\* if ((handle->callback) != NULL): the event is dropped when the callback
\* read is NULL, else the call statement comes next, nothing kept of the read
EmitTestsCallback(s, cb) ==
    IF cb # CB_NULL
    THEN [ s EXCEPT !.acquisition = "invoke" ]
    ELSE [ s EXCEPT !.pending = Tail(@) ]

\* the test of the callback before an event is delivered
TestCallback ==
    /\ sys.acquisition = "test"
    /\ sys.pending # <<>>
    /\ sys' = EmitTestsCallback(sys, h.callback)
    /\ UNCHANGED <<h, g, env, now, op, status, events, gevents, prev_ev_ts,
                   t_first, quiet, micro_col, state_after_macro, ncalls, args,
                   heap, obs, aoa>>

\* handle->callback(handle, &event, handle->callback_data): the call
\* statement reads the function pointer from the handle
CallReadsCallback ==
    /\ sys.acquisition = "invoke"
    /\ sys.fn = "unread"
    /\ sys' = [ sys EXCEPT !.fn = h.callback, !.fn_from = sys.callback_from ]
    /\ UNCHANGED <<h, g, env, now, op, status, events, gevents, prev_ev_ts,
                   t_first, quiet, micro_col, state_after_macro, ncalls, args,
                   heap, obs, aoa>>

\* the call statement reads callback_data from the handle; C leaves the
\* order of the two reads open
CallReadsCallbackData ==
    /\ sys.acquisition = "invoke"
    /\ sys.data_from = -1
    /\ sys' = [ sys EXCEPT !.data_from = sys.callback_data ]
    /\ UNCHANGED <<h, g, env, now, op, status, events, gevents, prev_ev_ts,
                   t_first, quiet, micro_col, state_after_macro, ncalls, args,
                   heap, obs, aoa>>

\* the call is made with the pointer and the data read; a callback that is
\* a function takes the event
CallCallback ==
    /\ sys.acquisition = "invoke"
    /\ sys.fn # "unread"
    /\ sys.data_from # -1
    /\ events' = IF sys.fn # CB_NULL
                 THEN Append(events, Head(sys.pending)) ELSE events
    /\ sys' = [ sys EXCEPT !.acquisition = "test",
                           !.pending = Tail(@),
                           !.fn = "unread",
                           !.fn_from = -1,
                           !.data_from = -1,
                           !.call = [ made |-> TRUE,
                                      fn |-> sys.fn,
                                      fn_from |-> sys.fn_from,
                                      data_from |-> sys.data_from ] ]
    /\ UNCHANGED <<h, g, env, now, op, status, gevents, prev_ev_ts,
                   t_first, quiet, micro_col, state_after_macro, ncalls, args,
                   heap, obs, aoa>>

\* process_frame returns: no event is left to deliver
RaceFrameReturns ==
    /\ sys.acquisition = "test"
    /\ sys.pending = <<>>
    /\ sys' = [ sys EXCEPT !.acquisition = "wait" ]
    /\ UNCHANGED <<h, g, env, now, op, status, events, gevents, prev_ev_ts,
                   t_first, quiet, micro_col, state_after_macro, ncalls, args,
                   heap, obs, aoa>>

\* the two tasks under any interleaving of their statements
NextRace ==
    \/ SetCallbackStoresCallback
    \/ SetCallbackStoresData
    \/ RaceFrameEnters
    \/ TestCallback
    \/ CallReadsCallback
    \/ CallReadsCallbackData
    \/ CallCallback
    \/ RaceFrameReturns
SpecRace == InitRace /\ [][NextRace]_vars

\* C36: while the console calls set_callback(handle, NULL, NULL) or restores
\* the callback and another task is inside process_frame, under any
\* interleaving process_frame never calls a NULL function pointer, and never
\* calls the callback with a callback_data stored by another set_callback
\* call than the one that stored the callback.
C36_CallbackCallsSafe ==
    sys.call.made =>
        /\ sys.call.fn # CB_NULL
        /\ sys.call.fn_from = sys.call.data_from

\* process_frame tested a callback that was not NULL and then called NULL:
\* set_callback(handle, NULL, NULL) ran between the test and the call
C36_NullCallbackCalled ==
    /\ sys.call.made
    /\ sys.call.fn = CB_NULL
    /\ sys.setting_mode

(********************* the radar task of main.c (C37, C38) ******************)
RADAR_COMMAND_RUN == "RUN"
RADAR_COMMAND_STOP == "STOP"
RADAR_COMMAND_RAW_DATA == "RAW_DATA"
RADAR_COMMAND_RAW_STREAM == "RAW_STREAM"

\* the commands command_task queues, and raw_data with a count of 0, which
\* handle_command refuses
RadarCommands ==
    { [type |-> RADAR_COMMAND_RUN, param |-> 0],
      [type |-> RADAR_COMMAND_STOP, param |-> 0],
      [type |-> RADAR_COMMAND_RAW_DATA, param |-> 0],
      [type |-> RADAR_COMMAND_RAW_DATA, param |-> 1],
      [type |-> RADAR_COMMAND_RAW_STREAM, param |-> 1],
      [type |-> RADAR_COMMAND_RAW_STREAM, param |-> 0] }

\* outcomes of a driver call: done; failed with the sensor left as it was;
\* failed after the sensor took the new setting
DriverOutcomes == {"ok", "failed", "failed_written"}

\* the outcomes of the driver calls one command can make, in order
OutcomeSeqs == [1..4 -> DriverOutcomes]

\* while (ulTaskNotifyTake(pdTRUE, 0U) > 0U) { }
clear_frame_notifications(s) == [ s EXCEPT !.notified = FALSE ]

\* xensiv_bgt60trxx_start_frame(&radar_dev.dev, on) with the given outcome
start_frame(s, on, out) ==
    [ s EXCEPT !.started = IF out = "failed" THEN @ ELSE on,
               !.all_ok = @ /\ out = "ok",
               !.driver_calls = @ + 1 ]

radar_start_acquisition(s, out) ==
    start_frame(clear_frame_notifications(s), TRUE, out)

radar_stop_acquisition(s, out) ==
    clear_frame_notifications(start_frame(s, FALSE, out))

\* the tail several handlers share: rslt = radar_start_acquisition();
\* radar_running = (rslt == CY_RSLT_SUCCESS)
ResumeRadar(s, out) ==
    [ radar_start_acquisition(s, out) EXCEPT !.radar_running = (out = "ok") ]

\* case RADAR_COMMAND_RUN
CommandRun(s, o) ==
    IF s.radar_running THEN s
    ELSE LET s1 == radar_start_acquisition(s, o[1])
         IN IF o[1] = "ok" THEN [ s1 EXCEPT !.radar_running = TRUE ] ELSE s1

\* case RADAR_COMMAND_STOP
CommandStop(s, o) ==
    IF ~s.radar_running THEN s
    ELSE LET s1 == radar_stop_acquisition(s, o[1])
         IN IF o[1] = "ok" THEN [ s1 EXCEPT !.radar_running = FALSE ] ELSE s1

\* process_raw_data(frame_count); captured is the number of frames the loop
\* took before it ended or timed out
process_raw_data(s, captured, o) ==
    IF s.raw_streaming THEN s
    ELSE LET s1 == IF s.radar_running
                   THEN [ radar_stop_acquisition(s, o[1])
                            EXCEPT !.radar_running = FALSE ]
                   ELSE s
             resume == s.radar_running /\ o[1] = "ok"
             s2 == start_frame(clear_frame_notifications(s1), TRUE, o[2])
         IN IF o[2] # "ok"
            THEN IF resume THEN ResumeRadar(s2, o[3]) ELSE s2
            ELSE LET s3 == [ s2 EXCEPT !.raw_captured = captured ]
                     s4 == clear_frame_notifications(
                               start_frame(s3, FALSE, o[3]))
                 IN IF resume THEN ResumeRadar(s4, o[4]) ELSE s4

raw_stream_start(s, o) ==
    IF s.raw_streaming THEN s
    ELSE LET s0 == [ s EXCEPT !.raw_stream_resume_tracking = s.radar_running ]
         IN IF s.radar_running /\ o[1] # "ok"
            THEN [ radar_stop_acquisition(s0, o[1])
                     EXCEPT !.radar_running = FALSE,
                            !.raw_stream_resume_tracking = FALSE ]
            ELSE LET s1 == IF s.radar_running
                           THEN [ radar_stop_acquisition(s0, o[1])
                                    EXCEPT !.radar_running = FALSE ]
                           ELSE s0
                     s2 == radar_start_acquisition(s1, o[2])
                 IN IF o[2] # "ok"
                    THEN [ (IF s1.raw_stream_resume_tracking
                            THEN ResumeRadar(s2, o[3]) ELSE s2)
                             EXCEPT !.raw_stream_resume_tracking = FALSE ]
                    ELSE [ s2 EXCEPT !.raw_stream_frame_count = 0,
                                     !.raw_streaming = TRUE ]

raw_stream_stop(s, o) ==
    IF ~s.raw_streaming THEN s
    ELSE LET s1 == radar_stop_acquisition(s, o[1])
         IN IF o[1] # "ok" THEN s1
            ELSE LET s2 == clear_frame_notifications(
                               [ s1 EXCEPT !.raw_streaming = FALSE,
                                           !.raw_stream_frame_count = 0 ])
                 IN [ (IF s2.raw_stream_resume_tracking
                       THEN ResumeRadar(s2, o[2]) ELSE s2)
                        EXCEPT !.raw_stream_resume_tracking = FALSE ]

\* handle_command of main.c
radar_handle_command(s, cmd, captured, o) ==
    CASE cmd.type = RADAR_COMMAND_RUN -> CommandRun(s, o)
      [] cmd.type = RADAR_COMMAND_STOP -> CommandStop(s, o)
      [] cmd.type = RADAR_COMMAND_RAW_DATA ->
            IF cmd.param = 0 THEN s ELSE process_raw_data(s, captured, o)
      [] cmd.type = RADAR_COMMAND_RAW_STREAM ->
            IF cmd.param # 0 THEN raw_stream_start(s, o)
            ELSE raw_stream_stop(s, o)

\* radar_task after init_sensor: idle, the sensor not started
InitRadar ==
    /\ InitDetector({DefaultConfig}, MainEnv)
    /\ aoa = NoAoa
    /\ sys = [ tasks |-> TRUE,
               radar_running |-> FALSE,
               raw_streaming |-> FALSE,
               raw_stream_resume_tracking |-> FALSE,
               raw_stream_frame_count |-> 0,
               raw_captured |-> 0,
               started |-> FALSE,
               notified |-> FALSE,
               all_ok |-> TRUE,
               driver_calls |-> 0,
               commands |-> 0,
               cmd |-> "none",
               interrupts |-> 0,
               waited_stopped |-> FALSE ]

\* radar_task: xQueueReceive gives a command, handle_command handles it
HandleCommand ==
    /\ sys.commands < MaxRadarCommands
    /\ \E cmd \in RadarCommands, o \in OutcomeSeqs, captured \in 0..1 :
         \E s \in { radar_handle_command(sys, cmd, captured, o) } :
            sys' = [ s EXCEPT !.commands = @ + 1, !.cmd = cmd.type,
                              !.waited_stopped = FALSE ]
    /\ UNCHANGED <<h, g, env, now, op, status, events, gevents, prev_ev_ts,
                   t_first, quiet, micro_col, state_after_macro, ncalls, args,
                   heap, obs, aoa>>

\* radar_irq_handler: the started sensor has a frame, the task is notified
RadarIrq ==
    /\ sys.started
    /\ ~sys.notified
    /\ sys.interrupts < MaxRadarFrames
    /\ sys' = [ sys EXCEPT !.notified = TRUE, !.interrupts = @ + 1 ]
    /\ UNCHANGED <<h, g, env, now, op, status, events, gevents, prev_ev_ts,
                   t_first, quiet, micro_col, state_after_macro, ncalls, args,
                   heap, obs, aoa>>

\* radar_task with the queue empty and a flag set: it takes the notification
\* and the frame; a raw stream counts the frame
RadarTaskTakesFrame ==
    /\ sys.radar_running \/ sys.raw_streaming
    /\ sys.notified
    /\ sys' = [ sys EXCEPT
                  !.notified = FALSE,
                  !.raw_stream_frame_count =
                      IF sys.raw_streaming THEN @ + 1 ELSE @ ]
    /\ UNCHANGED <<h, g, env, now, op, status, events, gevents, prev_ev_ts,
                   t_first, quiet, micro_col, state_after_macro, ncalls, args,
                   heap, obs, aoa>>

\* radar_task with the queue empty and a flag set, no frame ready:
\* ulTaskNotifyTake times out; the wait is one for a sensor that is stopped
RadarTaskWaits ==
    /\ sys.radar_running \/ sys.raw_streaming
    /\ ~sys.notified
    /\ sys.waited_stopped # ~sys.started
    /\ sys' = [ sys EXCEPT !.waited_stopped = ~sys.started ]
    /\ UNCHANGED <<h, g, env, now, op, status, events, gevents, prev_ev_ts,
                   t_first, quiet, micro_col, state_after_macro, ncalls, args,
                   heap, obs, aoa>>

\* radar_task with the queue empty and no flag set: ulTaskNotifyTake(pdTRUE,
\* 0) drops a notification, then the task sleeps 10 ms
RadarTaskIdles ==
    /\ ~sys.radar_running /\ ~sys.raw_streaming
    /\ sys.notified
    /\ sys' = [ sys EXCEPT !.notified = FALSE ]
    /\ UNCHANGED <<h, g, env, now, op, status, events, gevents, prev_ev_ts,
                   t_first, quiet, micro_col, state_after_macro, ncalls, args,
                   heap, obs, aoa>>

NextRadar ==
    \/ HandleCommand
    \/ RadarIrq
    \/ RadarTaskTakesFrame
    \/ RadarTaskWaits
    \/ RadarTaskIdles
SpecRadar == InitRadar /\ [][NextRadar]_vars

\* C37: in the radar task, radar_running and raw_streaming are never both
\* true, for any sequence of run, stop, raw_data and raw_stream commands and
\* any outcome of the driver start/stop calls.
C37_RunningExcludesStreaming ==
    ~(sys.radar_running /\ sys.raw_streaming)

\* a run command was handled while the raw stream was on, and set
\* radar_running beside raw_streaming
C37_RunDuringRawStream ==
    /\ sys.cmd = RADAR_COMMAND_RUN
    /\ sys.radar_running
    /\ sys.raw_streaming
    /\ sys.all_ok

\* C38: whenever a command has been fully handled with all driver calls
\* succeeding, the sensor acquisition is started if and only if radar_running
\* or raw_streaming is true; the task never waits for frames with
\* radar_running true while the acquisition is stopped.
C38_StartedIffFlag ==
    (sys.commands > 0 /\ sys.all_ok) =>
        /\ sys.started <=> (sys.radar_running \/ sys.raw_streaming)
        /\ ~(sys.waited_stopped /\ sys.radar_running)

\* every driver call succeeded, and the task waits for frames with
\* radar_running true and the acquisition stopped: raw_stream stop was
\* handled after a run command given during the stream
C38_WaitsWhileStopped ==
    /\ sys.all_ok
    /\ sys.cmd = RADAR_COMMAND_RAW_STREAM
    /\ sys.radar_running
    /\ ~sys.raw_streaming
    /\ ~sys.started
    /\ sys.waited_stopped

(******************* the binary capture program (C39) ***********************)
\* the commands handle_command knows: 'start' with a frame count (0 or none:
\* continuous) and 'stop'
CaptureCommands ==
    { [name |-> "start", frames |-> n] : n \in 0..MaxCaptureCount }
        \cup { [name |-> "stop", frames |-> 0] }

\* outcomes of the two fwrite calls of send_frame_binary
WriteOutcomes == {"ok", "header_failed", "payload_failed"}

\* the fields the start command and the two stop paths share
CaptureStopped(s) ==
    [ s EXCEPT !.capture_enabled = FALSE,
               !.data_available = FALSE,
               !.frame_limit_enabled = FALSE,
               !.frame_limit_total = 0,
               !.frame_limit_sent = 0,
               !.binary_stream_active = FALSE ]

\* handle_command of the capture program, out the outcome of its driver call
capture_handle_command(s, cmd, out) ==
    IF cmd.name = "start"
    THEN IF s.capture_enabled THEN s
         ELSE LET s1 == start_frame(s, TRUE, out)
              IN IF out = "ok"
                 THEN [ s1 EXCEPT !.capture_enabled = TRUE,
                                  !.data_available = FALSE,
                                  !.frame_limit_enabled = (cmd.frames > 0),
                                  !.frame_limit_total = cmd.frames,
                                  !.frame_limit_sent = 0,
                                  !.binary_stream_active = TRUE,
                                  !.requested = cmd.frames,
                                  !.written = 0 ]
                 ELSE s1
    ELSE IF ~s.capture_enabled THEN s
         ELSE LET s1 == start_frame(s, FALSE, out)
              IN IF out = "ok" THEN CaptureStopped(s1) ELSE s1

\* send_frame_binary: a failed fwrite ends the capture; written counts the
\* frames written whole since the last start
send_frame_binary(s, w) ==
    IF w = "ok"
    THEN [ s EXCEPT !.written = @ + 1 ]
    ELSE [ s EXCEPT !.binary_stream_active = FALSE,
                    !.capture_enabled = FALSE,
                    !.frame_limit_enabled = FALSE ]

\* the body of the main loop once capture is enabled and data is available
CaptureLoopBody(s, fifo_ok, w, out) ==
    LET s0 == [ s EXCEPT !.data_available = FALSE ]
    IN IF ~fifo_ok THEN s0
       ELSE LET s1 == [ send_frame_binary(s0, w) EXCEPT !.frame_idx = @ + 1 ]
            IN IF ~s1.frame_limit_enabled THEN s1
               ELSE LET s2 == [ s1 EXCEPT !.frame_limit_sent = @ + 1 ]
                    IN IF s2.frame_limit_sent < s2.frame_limit_total THEN s2
                       ELSE LET s3 == start_frame(s2, FALSE, out)
                            IN IF out = "ok" THEN CaptureStopped(s3) ELSE s3

\* main before its loop: the statics as initialised, the acquisition stopped
InitCapture ==
    /\ InitDetector({DefaultConfig}, MainEnv)
    /\ aoa = NoAoa
    /\ sys = [ tasks |-> FALSE,
               capture_enabled |-> FALSE,
               frame_limit_enabled |-> FALSE,
               frame_limit_total |-> 0,
               frame_limit_sent |-> 0,
               binary_stream_active |-> FALSE,
               data_available |-> FALSE,
               frame_idx |-> 0,
               started |-> FALSE,
               all_ok |-> TRUE,
               driver_calls |-> 0,
               requested |-> 0,
               written |-> 0,
               commands |-> 0,
               interrupts |-> 0 ]

\* process_cli has a line: handle_command
CaptureCommand ==
    /\ sys.commands < MaxCaptureCommands
    /\ \E cmd \in CaptureCommands, out \in DriverOutcomes :
         sys' = [ capture_handle_command(sys, cmd, out)
                    EXCEPT !.commands = @ + 1 ]
    /\ UNCHANGED <<h, g, env, now, op, status, events, gevents, prev_ev_ts,
                   t_first, quiet, micro_col, state_after_macro, ncalls, args,
                   heap, obs, aoa>>

\* xensiv_bgt60trxx_mtb_interrupt_handler: the started sensor has a frame
CaptureIrq ==
    /\ sys.started
    /\ ~sys.data_available
    /\ sys.interrupts < MaxCaptureFrames
    /\ sys' = [ sys EXCEPT !.data_available = TRUE, !.interrupts = @ + 1 ]
    /\ UNCHANGED <<h, g, env, now, op, status, events, gevents, prev_ev_ts,
                   t_first, quiet, micro_col, state_after_macro, ncalls, args,
                   heap, obs, aoa>>

\* the main loop past its waits: the frame is fetched, written and counted
CaptureFrame ==
    /\ sys.capture_enabled
    /\ sys.data_available
    /\ \E fifo_ok \in BOOLEAN, w \in WriteOutcomes, out \in DriverOutcomes :
         sys' = CaptureLoopBody(sys, fifo_ok, w, out)
    /\ UNCHANGED <<h, g, env, now, op, status, events, gevents, prev_ev_ts,
                   t_first, quiet, micro_col, state_after_macro, ncalls, args,
                   heap, obs, aoa>>

NextCapture == CaptureCommand \/ CaptureIrq \/ CaptureFrame
SpecCapture == InitCapture /\ [][NextCapture]_vars

\* C39: a capture started with 'start N' (N > 0) writes at most N binary
\* frames before capture_enabled becomes false, frame_limit_sent never
\* exceeds frame_limit_total, and whenever capture_enabled is false the
\* sensor acquisition has been stopped, for any outcome of the driver and
\* stream-write calls.
C39_CaptureLimitKept ==
    /\ (sys.capture_enabled /\ sys.requested > 0) =>
           sys.written <= sys.requested
    /\ sys.frame_limit_sent <= sys.frame_limit_total
    /\ ~sys.capture_enabled => ~sys.started

\* the stop at the end of a limited capture failed, and one frame more than
\* asked for was written with capture_enabled still true
C39_FrameBeyondLimit ==
    /\ sys.capture_enabled
    /\ sys.requested > 0
    /\ sys.written > sys.requested
    /\ sys.frame_limit_sent > sys.frame_limit_total
    /\ sys.started

==============================================================================
